---- MODULE Spec2Model ----
(***************************************************************************)
(* Fact loading pipelines of governanca_dw_controladoria: the three batch  *)
(* loaders (carregar_fato_clientes, carregar_fato_dre,                      *)
(* exportar_fato_receita_doc_dw) and the dimension-resolution steps that    *)
(* feed them (preparar_fato_clientes, preparar_fato,                        *)
(* preparar_fato_receita_doc).                                              *)
(*                                                                         *)
(* One behaviour is one run against one fact table.  A run is either the   *)
(* flow (modo = "fluxo": the resolve step writes the processed file, then  *)
(* the loader reads it) or the loader task alone on a processed file that  *)
(* is already on disk (modo = "tarefa").                                   *)
(*                                                                         *)
(* Data abstraction: a fact row keeps one column of each kind the code      *)
(* treats differently: the time key id_tempo, one dimension key            *)
(* (id_regional / id_item), the enumerated tipo_documento and one measure. *)
(* The remaining keys and measures go through the same statements.         *)
(***************************************************************************)
EXTENDS Integers, Sequences, FiniteSets, TLC

\* ------------------------------------------------------------------ bounds
\* Longest processed / staging file, in rows.
MaxLinhas == 3
\* Largest batch size given to a loader task.
MaxLote == 2
\* Longest processed file when two runs load the same input.
MaxLinhasDuas == 2

\* rows of a processed file when the declaration of the fact table varies
MaxLinhasTabela == 2
\* rows of the file limpar_dados reads
MaxCidades == 2
\* distinct unmapped keys of a staging file: one more than the report emits
MaxChaves == 51
\* further rows of a staging file with many unmapped keys
MaxLinhasRelatorio == 2
\* entries of one scratch directory besides the model's files
MaxItens == 2
\* rows of a processed file whose columns come in any order
MaxLinhasColunas == 2
\* rows of a batch beyond the page cap of the insert helper
MaxAlemDaPagina == 1
\* rows of a staging file resolved against dimension tables of any column names
MaxLinhasDescoberta == 1
\* rows of the input of a run whose steps are followed from the cleaning step on
MaxLinhasFluxo == 2
\* runs of the customers flow one after the other
MaxCorridas == 2
\* reference dates a run of the customers flow may be given
MaxDatas == 2
\* rows of the raw file of a receita_doc run whose document types vary
MaxLinhasTipos == 2

\* ------------------------------------------------------------------ text
\* Python str values are sequences of one-character strings.
Digitos == <<"0", "1", "2", "3", "4", "5", "6", "7", "8", "9">>
Minusculas == <<"a", "b", "c", "d", "e", "f", "g", "h", "i", "j", "k", "l", "m",
                "n", "o", "p", "q", "r", "s", "t", "u", "v", "w", "x", "y", "z">>
Maiusculas == <<"A", "B", "C", "D", "E", "F", "G", "H", "I", "J", "K", "L", "M",
                "N", "O", "P", "Q", "R", "S", "T", "U", "V", "W", "X", "Y", "Z">>

Range(f) == {f[x] : x \in DOMAIN f}

IndexOf(seq, c) == CHOOSE k \in 1..Len(seq) : seq[k] = c

EhDigito(c) == c \in Range(Digitos)

DigitVal(c) == IndexOf(Digitos, c) - 1

\* str.upper(), one character
UpperChar(c) == IF c \in Range(Minusculas) THEN Maiusculas[IndexOf(Minusculas, c)] ELSE c

\* str.upper()
StrUpper(s) == [k \in 1..Len(s) |-> UpperChar(s[k])]

RECURSIVE LStrip(_)
LStrip(s) == IF s # <<>> /\ Head(s) = " " THEN LStrip(Tail(s)) ELSE s

RECURSIVE RStrip(_)
RStrip(s) == IF s # <<>> /\ s[Len(s)] = " " THEN RStrip(SubSeq(s, 1, Len(s) - 1)) ELSE s

\* str.strip()
StrStrip(s) == RStrip(LStrip(s))

RECURSIVE StrNat(_)
StrNat(n) == IF n < 10 THEN <<Digitos[n + 1]>>
             ELSE StrNat(n \div 10) \o <<Digitos[(n % 10) + 1]>>

\* str(x) of an integer
Str(n) == IF n < 0 THEN <<"-">> \o StrNat(0 - n) ELSE StrNat(n)

RECURSIVE ParseNat(_)
ParseNat(s) == IF s = <<>> THEN 0
               ELSE ParseNat(SubSeq(s, 1, Len(s) - 1)) * 10 + DigitVal(s[Len(s)])

\* whether int(s) / pd.to_numeric accepts the text (integers only)
EhNumerico(s) ==
    LET d == IF s # <<>> /\ Head(s) = "-" THEN Tail(s) ELSE s
    IN  d # <<>> /\ \A k \in 1..Len(d) : EhDigito(d[k])

\* int(s)
ParseInt(s) == IF Head(s) = "-" THEN 0 - ParseNat(Tail(s)) ELSE ParseNat(s)

\* s[:n]
Prefixo(s, n) == SubSeq(s, 1, IF Len(s) < n THEN Len(s) ELSE n)

\* ------------------------------------------------------------------ cells
\* A cell of a DataFrame: an integer, a text, or missing (None / NaN / NA).
Inteiro(n) == [t |-> "int", n |-> n, s |-> <<>>]
Txt(s) == [t |-> "txt", n |-> 0, s |-> s]
Nulo == [t |-> "nulo", n |-> 0, s |-> <<>>]

\* pd.isna
IsNa(c) == c.t = "nulo"

\* pd.to_numeric(..., errors="raise") raises on this cell
NaoNumerico(c) == c.t = "txt" /\ ~EhNumerico(c.s)

\* pd.to_numeric of one cell that does not raise
ToNumeric(c) == IF c.t = "txt" THEN Inteiro(ParseInt(c.s)) ELSE c

\* Series.astype(str) of one cell
AsTypeStr(c) == CASE c.t = "txt" -> c
                  [] c.t = "int" -> Txt(Str(c.n))
                  [] OTHER -> Txt(<<"N", "o", "n", "e">>)

CPF == <<"C", "P", "F">>
CNPJ == <<"C", "N", "P", "J">>

\* ------------------------------------------------------------------ helpers
Min(S) == CHOOSE x \in S : \A y \in S : x <= y

\* sorted(S)
RECURSIVE Sorted(_)
Sorted(S) == IF S = {} THEN <<>> ELSE <<Min(S)>> \o Sorted(S \ {Min(S)})

Pipelines == {"clientes", "dre", "receita_doc"}

\* ------------------------------------------------------------------ loaders: schema
\* colunas_esperadas, in the INSERT's column order
ColunasEsperadas(p) ==
    CASE p = "clientes" -> <<"id_tempo", "id_regional", "tipo_documento", "qtde_contratos">>
      [] p = "dre" -> <<"id_tempo", "id_item", "valor">>
      [] p = "receita_doc" -> <<"id_tempo", "id_regional", "tipo_documento", "valor_total">>

\* chaves_int / chaves: converted with to_numeric(errors="raise").astype("int64")
ChavesInt(p) ==
    CASE p = "clientes" -> {"id_tempo", "id_regional"}
      [] p = "dre" -> {"id_tempo", "id_item"}
      [] p = "receita_doc" -> {"id_tempo", "id_regional"}

\* the measure column kept by the model
Medida(p) ==
    CASE p = "clientes" -> "qtde_contratos"
      [] p = "dre" -> "valor"
      [] p = "receita_doc" -> "valor_total"

TemTipo(p) == p \in {"clientes", "receita_doc"}

\* faltantes = [c for c in colunas_esperadas if c not in df.columns]
Faltantes(p, arq) ==
    SelectSeq(ColunasEsperadas(p), LAMBDA c : c \notin Range(arq.colunas))

\* ------------------------------------------------------------------ loaders: validation
\* A processed file: [existe, colunas, linhas]; a row maps column names to cells.

\* a key conversion that lets missing values through (a nullable Int64 cast)
ChaveInvalidaSemNulos(p, linhas) ==
    \E k \in 1..Len(linhas) : \E c \in ChavesInt(p) : NaoNumerico(linhas[k][c])

\* for c in chaves_int: df[c] = pd.to_numeric(df[c], errors="raise").astype("int64")
\* raises on a text that is no number and on a missing value (NaN cannot be cast)
ChaveInvalida(p, linhas) ==
    \E k \in 1..Len(linhas) : \E c \in ChavesInt(p) :
        NaoNumerico(linhas[k][c]) \/ IsNa(linhas[k][c])

\* df["tipo_documento"].astype(str).str.strip().str.upper()   (customers loader)
TipoNormalizado(c) == StrUpper(StrStrip(AsTypeStr(c).s))

\* tipos_invalidos = sorted(set(df["tipo_documento"].unique()) - tipos_validos)
\* Only the customers loader has the check.
TiposInvalidos(p, linhas) ==
    IF p = "clientes"
    THEN {TipoNormalizado(linhas[k]["tipo_documento"]) : k \in 1..Len(linhas)} \ {CPF, CNPJ}
    ELSE {}

\* the measure's conversion raises: not a number; in receita_doc also a missing
\* value (the nulos check covers valor_total); the customers loader fills
\* missing measures with 0 and the DRE loader keeps NaN
MedidaInvalida(p, linhas) ==
    \E k \in 1..Len(linhas) :
        \/ NaoNumerico(linhas[k][Medida(p)])
        \/ p = "receita_doc" /\ IsNa(linhas[k][Medida(p)])

\* The exception the read-and-validate part of a loader raises ("" when none).
ErroValidacao(p, arq) ==
    CASE ~arq.existe -> "FileNotFoundError"
      [] arq.existe /\ Faltantes(p, arq) # <<>> -> "ValueError"
      [] OTHER ->
            IF \/ ChaveInvalida(p, arq.linhas)
               \/ TiposInvalidos(p, arq.linhas) # {}
               \/ MedidaInvalida(p, arq.linhas)
            THEN "ValueError" ELSE ""

\* One row of df after the typing statements (no statement raised).
TiparLinha(p, l) ==
    [c \in Range(ColunasEsperadas(p)) |->
        CASE c \in ChavesInt(p) -> ToNumeric(l[c])
          [] c = "tipo_documento" ->
                IF p = "clientes" THEN Txt(TipoNormalizado(l[c])) ELSE AsTypeStr(l[c])
          [] OTHER ->
                IF p = "clientes" /\ IsNa(l[c]) THEN Inteiro(0) ELSE ToNumeric(l[c])]

\* df = df[colunas_esperadas].copy() followed by the typing statements
Tipar(p, arq) == [k \in 1..Len(arq.linhas) |-> TiparLinha(p, arq.linhas[k])]

\* a DataFrame that keeps the columns of the file in the file's order
ColunasArquivo(p, arq) == arq.colunas

\* df = df[colunas_esperadas].copy(): the columns of the DataFrame
ColunasDf(p, arq) == ColunasEsperadas(p)

\* the column list of sql_insert
ColunasInsert(p) ==
    CASE p = "clientes" -> <<"id_tempo", "id_regional", "tipo_documento", "qtde_contratos">>
      [] p = "dre" -> <<"id_tempo", "id_item", "valor">>
      [] p = "receita_doc" -> <<"id_tempo", "id_regional", "tipo_documento", "valor_total">>

\* tuple(py(x) for x in row), for a row of itertuples(index=False): the
\* values in the order of the DataFrame's columns
TuplaDe(cols, l) == [k \in 1..Len(cols) |-> l[cols[k]]]

\* tuple(py(x) for x in row): the values in the column order of colunas_esperadas
Tupla(p, l) == [k \in 1..Len(ColunasEsperadas(p)) |-> l[ColunasEsperadas(p)[k]]]

\* ------------------------------------------------------------------ loaders: partitions
\* int(str(x)[:4])
AnoDe(x) == ParseInt(Prefixo(Str(x), 4))

\* anos = sorted({int(str(x)[:4]) for x in df["id_tempo"].unique()})
Anos(df) == Sorted({AnoDe(df[k]["id_tempo"].n) : k \in 1..Len(df)})

\* inicio = int(f"{ano}0101")
Inicio(ano) == ParseInt(Str(ano) \o <<"0", "1", "0", "1">>)

\* fim = int(f"{ano}1231"), an upper bound meant to be inclusive
FimDezembro(ano) == ParseInt(Str(ano) \o <<"1", "2", "3", "1">>)

\* fim = int(f"{ano + 1}0101")
Fim(ano) == ParseInt(Str(ano + 1) \o <<"0", "1", "0", "1">>)

\* <fact_table>_<ano> PARTITION OF <fact_table> FOR VALUES FROM (inicio) TO (fim);
\* the partition's name is the table's name and ano.
Particao(ano) == [ano |-> ano, inicio |-> Inicio(ano), fim |-> Fim(ano)]

\* CREATE TABLE without IF NOT EXISTS
CriarSempre(existentes, ano) == {Particao(ano)}

\* CREATE TABLE IF NOT EXISTS: nothing happens when the name is taken
CriarSeAusente(existentes, ano) ==
    IF \E q \in existentes : q.ano = ano THEN {} ELSE {Particao(ano)}

\* The warehouse serialises the creation of partitions of one table: a
\* CREATE TABLE ... PARTITION OF that has something to create waits while
\* another open transaction holds partitions it created.
Livre(novas, abertas) == novas # {} => abertas = {}

\* <fact_table>_<ano> is an SQL identifier only without a sign
NomeValido(ano) == ano >= 0

\* ------------------------------------------------------------------ loaders: partition metadata
\* the characters of the names that occur in a partition key definition
Letras(nome) ==
    CASE nome = "RANGE" -> <<"R", "A", "N", "G", "E">>
      [] nome = "LIST" -> <<"L", "I", "S", "T">>
      [] nome = "id_tempo" -> <<"i", "d", "_", "t", "e", "m", "p", "o">>
      [] nome = "id_tempo_ref" -> <<"i", "d", "_", "t", "e", "m", "p", "o", "_", "r", "e", "f">>
      [] nome = "id_regional" -> <<"i", "d", "_", "r", "e", "g", "i", "o", "n", "a", "l">>
      [] nome = "id_item" -> <<"i", "d", "_", "i", "t", "e", "m">>

\* a table declared without PARTITION BY
SemParticionamento == [estrategia |-> "", coluna |-> ""]

\* a table declared PARTITION BY <estrategia> (<coluna>)
ParticionadaPor(estrategia, coluna) == [estrategia |-> estrategia, coluna |-> coluna]

\* SELECT pg_get_partkeydef(...): NULL for a table that is not partitioned,
\* else the text "<STRATEGY> (<column>)"
PartKeyDef(t) ==
    IF t = SemParticionamento THEN Nulo
    ELSE Txt(Letras(t.estrategia) \o <<" ", "(">> \o Letras(t.coluna) \o <<")">>)

\* sub in s, for two str values
Contem(s, sub) ==
    \E k \in 0..(Len(s) - Len(sub)) : SubSeq(s, k + 1, k + Len(sub)) = sub

\* _garantir_particionamento_id_tempo after the SELECT: the exception it
\* raises for this key definition ("" if none)
ErroParticionamento(partdef) ==
    IF IsNa(partdef) \/ partdef.s = <<>> THEN "ValueError"
    ELSE LET partdef_txt == StrUpper(StrStrip(partdef.s)) IN
         IF \/ ~Contem(partdef_txt, <<"R", "A", "N", "G", "E">>)
            \/ ~Contem(partdef_txt, <<"I", "D", "_", "T", "E", "M", "P", "O">>)
         THEN "ValueError" ELSE ""

\* what the loader finds wrong with the table before the loop over anos:
\* only the customers loader looks at the key definition
ErroVerificacao(p, t) == IF p = "clientes" THEN ErroParticionamento(PartKeyDef(t)) ELSE ""

\* CREATE TABLE ... PARTITION OF <fact_table> FOR VALUES FROM (..) TO (..) is
\* accepted only by a table partitioned by range (on an integer column)
AceitaFaixa(t) == t.estrategia = "RANGE"

\* ------------------------------------------------------------------ loaders: batches
\* range(0, total - lote + 1, lote): a loop over the full batches only
NoRangeSoCheios(i, total, lote) == lote > 0 /\ i + lote <= total

\* range(0, total, lote), for lote > 0: the offsets still to visit from i
NoRange(i, total, lote) == lote > 0 /\ i < total

\* chunk = df.iloc[: i + lote], a slice that forgets its start
ChunkDesdeInicio(df, i, lote) ==
    SubSeq(df, 1, IF i + lote < Len(df) THEN i + lote ELSE Len(df))

\* chunk = df.iloc[i : i + lote]
Chunk(df, i, lote) ==
    SubSeq(df, i + 1, IF i + lote < Len(df) THEN i + lote ELSE Len(df))

\* valores = [tuple(py(x) for x in row) for row in chunk.itertuples(...)],
\* for a DataFrame whose columns are cols
Valores(cols, df, i, lote) ==
    LET ch == Chunk(df, i, lote) IN [k \in 1..Len(ch) |-> TuplaDe(cols, ch[k])]

\* the cap of page_size in the execute_values call
PAGE_SIZE_MAX == 10000

\* page_size=min(lote, 10000)
PageSize(lote) == IF lote < PAGE_SIZE_MAX THEN lote ELSE PAGE_SIZE_MAX

\* execute_values(cur, sql_insert, valores, page_size=...): psycopg2 cuts the
\* n tuples into pages of page_size and executes one statement per page
Sentencas(n, page_size) == (n + page_size - 1) \div page_size

\* i // lote + 1
NumLote(i, lote) == (i \div lote) + 1

\* an INSERT that skips the rows the table already holds
RECURSIVE GravarSemRepetir(_, _)
GravarSemRepetir(tabela, linhas) ==
    IF linhas = <<>> THEN tabela
    ELSE GravarSemRepetir(IF \E n \in 1..Len(tabela) : tabela[n] = Head(linhas)
                          THEN tabela ELSE Append(tabela, Head(linhas)),
                          Tail(linhas))

\* INSERT INTO <fact_table> (...) VALUES %s, without ON CONFLICT: the rows
\* are appended whatever the table already holds
Gravar(tabela, linhas) == tabela \o linhas

\* INSERT INTO <fact_table>: the warehouse routes each row to the partition
\* whose range holds the row's value of the partition column and rejects the
\* statement when a row has none (the INSERT gives a value to the loader's
\* columns only)
Roteavel(linhas, existentes, coluna) ==
    ~ \E k \in 1..Len(linhas) :
        \/ coluna \notin DOMAIN linhas[k]
        \/ ~ \E q \in existentes :
                q.inicio <= linhas[k][coluna].n /\ linhas[k][coluna].n < q.fim

\* ------------------------------------------------------------------ resolve step
\* A date (datetime.date / Timestamp) cell.
Data(n) == [t |-> "data", n |-> n, s |-> <<>>]

\* " ".join(s.split()) of a text without leading blanks
RECURSIVE Colapsar(_)
Colapsar(s) ==
    IF s = <<>> THEN <<>>
    ELSE IF Head(s) = " "
         THEN (IF LStrip(s) = <<>> THEN <<>> ELSE <<" ">> \o Colapsar(LStrip(s)))
         ELSE <<Head(s)>> \o Colapsar(Tail(s))

\* preparar_fato._normalize: "" for a missing value, else
\* " ".join(str(s).strip().upper().split())
Normalize(c) ==
    IF IsNa(c) THEN Txt(<<>>)
    ELSE Txt(Colapsar(StrUpper(StrStrip(AsTypeStr(c).s))))

\* pd.to_numeric(..., errors="coerce"): what is no number becomes NA
ToNumericCoerce(c) == IF NaoNumerico(c) THEN Nulo ELSE ToNumeric(c)

\* pd.to_datetime(..., errors="coerce").dt.date: what is no date becomes NaT
ToDateCoerce(c) == IF c.t = "data" THEN c ELSE Nulo

\* the columns the resolve step reads from its input file
ColunasStaging(p) ==
    CASE p = "clientes" -> <<"data", "id_regional_imanager", "tipo_documento", "qtde_contratos">>
      [] p = "dre" -> <<"DATA", "item", "VALORG">>
      [] p = "receita_doc" -> <<"id_regional_imanager", "data", "tipo_documento", "valor_total">>

ColData(p) == IF p = "dre" THEN "DATA" ELSE "data"

ColNatural(p) == IF p = "dre" THEN "item" ELSE "id_regional_imanager"

ColSurrogate(p) == IF p = "dre" THEN "id_item" ELSE "id_regional"

\* row l with column c set to v (df[c] = ...)
Com(l, c, v) == [x \in (DOMAIN l) \cup {c} |-> IF x = c THEN v ELSE l[x]]

\* df.merge(dim, on=..., how="left"): every left row, in order, once per right
\* row with an equal key (missing keys equal each other), and once with a
\* missing surrogate when no right row matches
RECURSIVE LeftMerge(_, _, _, _)
LeftMerge(esq, dir, em, novo) ==
    IF esq = <<>> THEN <<>>
    ELSE LET l == Head(esq)
             achados == SelectSeq(dir, LAMBDA r : r.chave = l[em])
             saida == IF achados = <<>>
                      THEN <<Com(l, novo, Nulo)>>
                      ELSE [k \in 1..Len(achados) |-> Com(l, novo, achados[k].id)]
         IN  saida \o LeftMerge(Tail(esq), dir, em, novo)

\* validate="m:1" raises MergeError when the right keys are not unique
ChaveDuplicada(dir) ==
    \E a, b \in 1..Len(dir) : a # b /\ dir[a].chave = dir[b].chave

\* SELECT ... WHERE <fk> IS NOT NULL, then to_numeric(errors="coerce")
\* (customers, receita_doc); SELECT all, then _normalize (DRE)
DimLida(p, dim) ==
    IF p = "dre"
    THEN [k \in 1..Len(dim) |-> [id |-> dim[k].id, chave |-> Normalize(dim[k].chave)]]
    ELSE LET nn == SelectSeq(dim, LAMBDA r : ~IsNa(r.chave))
         IN  [k \in 1..Len(nn) |-> [id |-> nn[k].id, chave |-> ToNumericCoerce(nn[k].chave)]]

\* dim_tempo with its date column converted
TempoLido(tempo) ==
    [k \in 1..Len(tempo) |-> [id |-> tempo[k].id, chave |-> ToDateCoerce(tempo[k].chave)]]

\* the typing of the staging rows before the joins
TiparStaging(p, linhas) ==
    IF p = "dre"
    THEN [k \in 1..Len(linhas) |-> Com(linhas[k], "item_norm", Normalize(linhas[k]["item"]))]
    ELSE LET datas == [k \in 1..Len(linhas) |->
                          Com(linhas[k], "data", ToDateCoerce(linhas[k]["data"]))]
             validas == SelectSeq(datas, LAMBDA l : ~IsNa(l["data"]))
         IN  [k \in 1..Len(validas) |->
                 Com(validas[k], "id_regional_imanager",
                     ToNumericCoerce(validas[k]["id_regional_imanager"]))]

\* the joins: the dimension, then dim_tempo
Juntar(p, linhas, dms) ==
    LeftMerge(LeftMerge(linhas, DimLida(p, dms.dim),
                        IF p = "dre" THEN "item_norm" ELSE ColNatural(p), ColSurrogate(p)),
              TempoLido(dms.tempo), ColData(p), "id_tempo")

\* _get_columns of the two dimension tables the model keeps
Esquema(dim, tempo) == [dim |-> dim, tempo |-> tempo]

\* dimension tables with the column names the resolve steps try first
EsquemaPadrao ==
    Esquema(<<"id_regional", "id_regional_imanager">>, <<"id_tempo", "data">>)

\* candidatas of the surrogate key of dim_regionais
CandidatasPkReg == <<"id_regional", "id">>

\* candidatas of the natural key of dim_regionais
CandidatasFkReg(p) ==
    IF p = "clientes"
    THEN <<"id_regional_imanager", "id_regional_imanage", "id_regional_imananger">>
    ELSE <<"id_regional_imanager">>

\* candidatas of the key of dim_tempo
CandidatasPkTmp == <<"id_tempo", "id">>

\* candidatas of the date column of dim_tempo
CandidatasData == <<"data", "dt", "data_dia", "data_calendario">>

\* a value returned, or an exception raised
Retorna(v) == [erro |-> "", valor |-> v]

Levanta(e) == [erro |-> e, valor |-> ""]

\* the candidates that are columns of the table, in the candidates' order
Existentes(cols_existentes, candidatas) ==
    SelectSeq(candidatas, LAMBDA c : c \in Range(cols_existentes))

\* a discovery that returns the last candidate the table has
DetectarUltimaExistente(cols_existentes, candidatas) ==
    LET ex == Existentes(cols_existentes, candidatas)
    IN  IF ex = <<>> THEN Levanta("ValueError") ELSE Retorna(ex[Len(ex)])

\* _detectar_coluna_existente: for c in candidatas: if c in cols_existentes:
\* return c; raise ValueError
DetectarColunaExistente(cols_existentes, candidatas) ==
    LET ex == Existentes(cols_existentes, candidatas)
    IN  IF ex = <<>> THEN Levanta("ValueError") ELSE Retorna(Head(ex))

\* nothing discovered, nothing read
SemDescoberta ==
    [pk_reg |-> "", fk_reg_im |-> "", pk_tmp |-> "", col_data_tmp |-> "",
     erro |-> "", lidas |-> {}]

\* The try block of the resolve step: the four discoveries in their order,
\* the first that raises ends the block; then the SELECTs of the dimension
\* tables.  The DRE step has fixed column names and only reads the tables.
Descobrir(p, esq) ==
    LET pk_reg == DetectarColunaExistente(esq.dim, CandidatasPkReg)
        fk_reg_im == DetectarColunaExistente(esq.dim, CandidatasFkReg(p))
        pk_tmp == DetectarColunaExistente(esq.tempo, CandidatasPkTmp)
        col_data_tmp == DetectarColunaExistente(esq.tempo, CandidatasData)
        ok1 == pk_reg.erro = ""
        ok2 == ok1 /\ fk_reg_im.erro = ""
        ok3 == ok2 /\ pk_tmp.erro = ""
        ok4 == ok3 /\ col_data_tmp.erro = ""
    IN  IF p = "dre"
        THEN [SemDescoberta EXCEPT !.lidas = {"dim", "tempo"}]
        ELSE [pk_reg |-> pk_reg.valor,
              fk_reg_im |-> IF ok1 THEN fk_reg_im.valor ELSE "",
              pk_tmp |-> IF ok2 THEN pk_tmp.valor ELSE "",
              col_data_tmp |-> IF ok3 THEN col_data_tmp.valor ELSE "",
              erro |-> IF ok4 THEN "" ELSE "ValueError",
              lidas |-> IF ok4 THEN {"dim", "tempo"} ELSE {}]

\* the document type upper-cased and trimmed, left as it is otherwise
TipoReceitaMantido(c) == Txt(StrStrip(StrUpper(AsTypeStr(c).s)))

\* tipo_documento of the receita_doc fact: astype(str).str.upper().str.strip(),
\* then whatever is not CPF or CNPJ becomes "CPF"
TipoReceita(c) ==
    LET t == StrStrip(StrUpper(AsTypeStr(c).s))
    IN  IF t \in {CPF, CNPJ} THEN Txt(t) ELSE Txt(CPF)

\* one row of the final fact frame (df_fato / fato), from a joined row
LinhaFato(p, l) ==
    [c \in Range(ColunasEsperadas(p)) |->
        CASE c \in ChavesInt(p) ->
                IF p = "dre" THEN l[c] ELSE ToNumericCoerce(l[c])
          [] c = "tipo_documento" ->
                IF p = "receita_doc" THEN TipoReceita(l[c]) ELSE l[c]
          [] OTHER ->
                IF p = "dre" THEN l["VALORG"]
                ELSE LET m == ToNumericCoerce(l[c])
                     IN  IF IsNa(m) THEN Inteiro(0) ELSE m]

\* The rows the resolve step writes: every joined row, resolved or not.
LinhasFato(p, juntadas) == [k \in 1..Len(juntadas) |-> LinhaFato(p, juntadas[k])]

\* resumo.head(50)
TopN == 50

\* df[df[col].isna()]
Faltando(linhas, col) == SelectSeq(linhas, LAMBDA l : IsNa(l[col]))

\* the order of two group keys: ascending, a missing key last
Menor(a, b) == ~IsNa(a) /\ (IsNa(b) \/ a.n < b.n)

\* groupby([col], dropna=False).size().reset_index(name="registros")
Tamanhos(linhas, col) ==
    { [chave |-> c,
       registros |-> Len(SelectSeq(linhas, LAMBDA l : l[col] = c))] :
          c \in {linhas[k][col] : k \in 1..Len(linhas)} }

\* sort_values("registros", ascending=False); groups of one size stay in the
\* order of their keys
RECURSIVE Ordenar(_)
Ordenar(G) ==
    IF G = {} THEN <<>>
    ELSE LET m == CHOOSE g \in G : \A h \in G \ {g} :
                      \/ h.registros < g.registros
                      \/ h.registros = g.registros /\ Menor(g.chave, h.chave)
         IN  <<m>> \o Ordenar(G \ {m})

\* the report of one dimension: the summary of the rows whose surrogate key
\* is missing, grouped by the key column, and the lines logged from it
RelatorioDe(linhas, id, col) ==
    LET resumo == Ordenar(Tamanhos(Faltando(linhas, id), col))
    IN  [resumo |-> resumo, emitido |-> Prefixo(resumo, TopN)]

\* no unmapped key reported
SemRelatorio ==
    [regional |-> [resumo |-> <<>>, emitido |-> <<>>],
     tempo |-> [resumo |-> <<>>, emitido |-> <<>>]]

\* the reports of the customers and receita_doc resolve steps (the DRE
\* resolve step reports no key), from the joined rows
Relatorio(p, juntadas) ==
    IF p = "dre" THEN SemRelatorio
    ELSE [regional |-> RelatorioDe(juntadas, ColSurrogate(p), ColNatural(p)),
          tempo |-> RelatorioDe(juntadas, "id_tempo", ColData(p))]

\* The exception the resolve step raises before it reads the dimensions.
ErroStaging(p, stg) ==
    CASE ~stg.existe -> "FileNotFoundError"
      [] stg.existe /\ p # "dre" /\ stg.linhas = <<>> -> ""
      [] OTHER ->
            IF \E k \in 1..Len(ColunasStaging(p)) : ColunasStaging(p)[k] \notin Range(stg.colunas)
            THEN IF p = "dre" THEN "KeyError" ELSE "ValueError"
            ELSE ""

\* ------------------------------------------------------------------ city cleaning (DRE)
\* MAPEAMENTO_CIDADES, as pairs <<value, replacement>>
MAPEAMENTO_CIDADES ==
    { <<<<"B", "E", "T", "I", "M", " ", "R", "E", "G", "I", "O", "N", "A", "L">>,
        <<"B", "E", "T", "I", "M">>>>,
      <<<<"D", "I", "V", "I", "N", "O", "P", "O", "L", "I", "S", " ", "R", "E", "G", "I", "O", "N", "A", "L">>,
        <<"D", "I", "V", "I", "N", "O", "P", "O", "L", "I", "S">>>>,
      <<<<"I", "T", "A", "J", "U", "B", "A", " ", "R", "E", "G", "I", "O", "N", "A", "L">>,
        <<"I", "T", "A", "J", "U", "B", "A">>>>,
      <<<<"I", "T", "A", "U", "N", "A", " ", "R", "E", "G", "I", "O", "N", "A", "L">>,
        <<"I", "T", "A", "U", "N", "A">>>>,
      <<<<"L", "A", "V", "R", "A", "S", " ", "R", "E", "G", "I", "O", "N", "A", "L">>,
        <<"L", "A", "V", "R", "A", "S">>>>,
      <<<<"P", "A", "S", "S", "O", "S", " ", "R", "E", "G", "I", "O", "N", "A", "L">>,
        <<"P", "A", "S", "S", "O", "S">>>>,
      <<<<"S", "A", "O", " ", "P", "A", "U", "L", "O">>,
        <<"T", "A", "U", "B", "A", "T", "E">>>>,
      <<<<"S", "A", "O", " ", "P", "A", "U", "L", "O", " ", "R", "E", "G", "I", "O", "N", "A", "L">>,
        <<"T", "A", "U", "B", "A", "T", "E">>>>,
      <<<<"S", "A", "P", "U", "C", "A", "I", " ", "M", "I", "R", "I", "M">>,
        <<"S", "A", "P", "U", "C", "A", "I", "-", "M", "I", "R", "I", "M">>>>,
      <<<<"U", "N", "A", "I", " ", "R", "E", "G", "I", "O", "N", "A", "L">>,
        <<"U", "N", "A", "I">>>>,
      <<<<"V", "A", "R", "G", "I", "N", "H", "A", " ", "R", "E", "G", "I", "O", "N", "A", "L">>,
        <<"V", "A", "R", "G", "I", "N", "H", "A">>>> }

\* Series.replace(MAPEAMENTO_CIDADES): a value equal to a key becomes its replacement
Substituir(s) ==
    IF \E m \in MAPEAMENTO_CIDADES : m[1] = s
    THEN (CHOOSE m \in MAPEAMENTO_CIDADES : m[1] = s)[2]
    ELSE s

\* upper-case letters with an accent (tilde, acute, cedilla: one character
\* each) and their base letters (NFKD, then the combining marks dropped)
Acentuadas == <<"A~", "A'", "E'", "C,">>
SemAcento == <<"A", "A", "E", "C">>

\* remover_acentos of a str
RemoverAcentos(s) ==
    [k \in 1..Len(s) |->
        IF s[k] \in Range(Acentuadas) THEN SemAcento[IndexOf(Acentuadas, s[k])] ELSE s[k]]

\* " ".join(x.split())
JoinSplit(s) == Colapsar(LStrip(s))

\* CIDADE APOS RATEIO: astype(str), " ".join(x.split()), upper, remover_acentos,
\* strip, replace(MAPEAMENTO_CIDADES)
NormalizarCidade(c) ==
    Txt(Substituir(StrStrip(RemoverAcentos(StrUpper(JoinSplit(AsTypeStr(c).s))))))

\* nome_cidade_norm: astype(str), upper, remover_acentos, strip
NormalizarNomeCidade(c) == Txt(StrStrip(RemoverAcentos(StrUpper(AsTypeStr(c).s))))

\* dim_cidades with its nome_cidade_norm column
CidadesLidas(dim) ==
    [k \in 1..Len(dim) |-> [id |-> dim[k].id, chave |-> NormalizarNomeCidade(dim[k].chave)]]

\* the rows limpar_dados writes: the normalised city and the id_cidade of the
\* left merge
LinhasLimpas(cid) ==
    LeftMerge([k \in 1..Len(cid.linhas) |-> [cidade |-> NormalizarCidade(cid.linhas[k])]],
              CidadesLidas(cid.dim), "cidade", "id_cidade")

\* ------------------------------------------------------------------ loaders: cleanup
\* pastas_para_limpar
PastasParaLimpar == <<"processed", "raw", "staging">>

\* An entry of a scratch directory: a regular file, a directory, or an entry
\* that is neither (a FIFO, a dangling link); preso: removing it raises.
Item(nome, tipo, preso) == [nome |-> nome, tipo |-> tipo, preso |-> preso]

\* item.is_file() / item.is_dir(): the entry the loop body tries to remove
Tenta(item) == item.tipo \in {"arquivo", "dir"}

\* item.unlink() / shutil.rmtree(item) raises
FalhaAoRemover(item) == Tenta(item) /\ item.preso

\* a loop body that removes the regular files only
LimparSoArquivos(pasta) ==
    IF pasta.existe
    THEN [existe |-> TRUE, itens |-> {it \in pasta.itens : it.tipo # "arquivo" \/ it.preso}]
    ELSE pasta

\* the loop over pasta.iterdir(): what is left of an existing directory
LimparPasta(pasta) ==
    IF pasta.existe
    THEN [existe |-> TRUE, itens |-> {it \in pasta.itens : ~Tenta(it) \/ FalhaAoRemover(it)}]
    ELSE pasta

\* the loop over pastas_para_limpar
Limpar(ps) == [d \in Range(PastasParaLimpar) |-> LimparPasta(ps[d])]

\* print(f"[WARN] Erro ao remover {item}: {e}"), one line for each removal
\* that raised
Avisos(ps) ==
    UNION {{[pasta |-> d, nome |-> it.nome] : it \in {y \in ps[d].itens : FalhaAoRemover(y)}} :
              d \in {x \in Range(PastasParaLimpar) : ps[x].existe}}

\* the three scratch directories with no entry besides the model's files
PastasVazias == [d \in Range(PastasParaLimpar) |-> [existe |-> TRUE, itens |-> {}]]

\* ------------------------------------------------------------------ state
VARIABLES
    pipeline,    \* which flow / loader this run is
    modo,        \* "fluxo": resolve step then loader; "tarefa": the loader task alone
    pc,          \* position of the run
    staging,     \* the file the resolve step reads
    dims,        \* the dimension tables of the warehouse: [dim, tempo]
    processed,   \* data/processed/<fato>_preparado.parquet
    lote,        \* the loader's batch-size parameter
    lido,        \* the DataFrame the loader read from the processed file
    df,          \* the loader's DataFrame after the typing statements
    anos,        \* the loader's sorted list of years
    j,           \* index of the next year in anos
    i,           \* offset of the current batch
    inseridos,   \* the loader's counter of committed rows
    tx_part,     \* partitions created in the open transaction
    tx_rows,     \* rows inserted in the open transaction
    particoes,   \* committed partitions of the fact table
    particoes0,  \* the partitions before the run
    fato,        \* committed rows of the fact table
    hist,        \* the statements issued on the warehouse connection, in order
    excecao,     \* the exception caught by the loader's except clause ("" if none)
    falha,       \* the first failure: the step, its batch or year, the exception raised
    resultado,   \* what the caller has observed: "executando", "retornou", "levantou"
    erro,        \* the exception the caller observes ("" if none)
    retorno,     \* the value the loader returns
    limpezas,    \* how many times the scratch-directory cleanup has run
    tentativa,   \* 1 for a first run, 2 for a retry after another run is over
    entrada,     \* the processed file the upstream steps produce for this input
    outro,       \* the other run of the same loader: its position and local state
    tabela,      \* the fact table's declared partitioning: [estrategia, coluna]
    cidades,     \* limpar_dados: the rows it reads (CIDADE APÓS RATEIO) and dim_cidades
    limpos,      \* limpar_dados: the rows it writes, [cidade, id_cidade]
    relatorio,   \* the resolve step's report of unmapped keys: [regional, tempo]
    pastas,      \* data/processed, data/raw, data/staging: [existe, itens], the entries besides the model's files
    avisos,      \* the [WARN] lines of the cleanup: the entries whose removal raised
    colunas,     \* the columns of the loader's DataFrame, in order
    sentencas,   \* the number of statements each execute_values call of the run sent
    esquema,     \* the columns of the dimension tables, as information_schema lists them
    descoberta,  \* what the column discovery of the resolve step found and which tables it read
    passos,      \* the steps of the run that have started, in order
    dados        \* the files of data/raw, data/staging and data/processed of the customers flow, the run under way and the files its steps have read

vars == <<dados, passos, descoberta, esquema, sentencas, colunas, avisos, pastas, relatorio, limpos, cidades, tabela, pipeline, modo, pc, staging, dims, processed, lote, lido, df, anos, j, i, inseridos,
          tx_part, tx_rows, particoes, particoes0, fato, hist, excecao, falha,
          resultado, erro, retorno, limpezas, tentativa, entrada, outro>>

\* the variables of one load, all but the files of the customers flow
Carga ==
    <<passos, descoberta, esquema, sentencas, colunas, avisos, pastas, relatorio, limpos,
      cidades, tabela, pipeline, modo, pc, staging, dims, processed, lote, lido, df, anos,
      j, i, inseridos, tx_part, tx_rows, particoes, particoes0, fato, hist, excecao, falha,
      resultado, erro, retorno, limpezas, tentativa, entrada, outro>>

\* ------------------------------------------------------------------ customers flow: files
\* A parquet file of the customers flow: the date in its name (0 for
\* fato_clientes_preparado.parquet), the run that wrote its content, and
\* what it holds: rows that load, no row, or rows the loader rejects.
Arquivo(data, origem, tipo) == [data |-> data, origem |-> origem, tipo |-> tipo]

TiposDeArquivo == {"linhas", "vazio", "invalido"}

\* to_parquet(<dir>/<name>_<data>.parquet): a file of that name is replaced
Escrever(dir, f) == {g \in dir : g.data # f.data} \cup {f}

\* sorted(dir.glob(pattern))[-1]: the file whose name comes last, which is
\* the one with the latest date in its name
Ultimo(dir) == CHOOSE f \in dir : \A g \in dir : g.data <= f.data

\* _encontrar_ultimo_raw (FileNotFoundError when the directory has no file)
EncontrarUltimoRaw(raw_dir) ==
    IF raw_dir = {} THEN Levanta("FileNotFoundError") ELSE Retorna(Ultimo(raw_dir))

\* _encontrar_ultimo_staging
EncontrarUltimoStaging(staging_dir) ==
    IF staging_dir = {} THEN Levanta("FileNotFoundError") ELSE Retorna(Ultimo(staging_dir))

\* _encontrar_fato_processado: fato_clientes_preparado.parquet when it
\* exists, else the last fato_clientes_<date>.parquet
EncontrarFatoProcessado(processed_dir) ==
    LET preferido == {f \in processed_dir : f.data = 0}
        arquivos == {f \in processed_dir : f.data # 0}
    IN  IF preferido # {} THEN Retorna(CHOOSE f \in preferido : TRUE)
        ELSE IF arquivos = {} THEN Levanta("FileNotFoundError")
        ELSE Retorna(Ultimo(arquivos))

\* no run of the customers flow
SemDados ==
    [raw |-> {}, staging |-> {}, processed |-> {}, corrida |-> 0, data_ref |-> 0,
     passo |-> "fim", leu |-> <<>>]

\* ------------------------------------------------------------------ inputs
Linha(p, tempo, chave, tipo, medida) ==
    [c \in Range(ColunasEsperadas(p)) |->
        CASE c = "id_tempo" -> tempo
          [] c \in ChavesInt(p) -> chave
          [] c = "tipo_documento" -> tipo
          [] OTHER -> medida]

\* Rows a processed file may hold: two loadable rows (the second needs the
\* conversions), a time key of fewer than four digits, a negative time key,
\* a disallowed tipo_documento, a missing key, a missing measure and a
\* measure that is no number.
LinhasArquivo(p) ==
    { Linha(p, Inteiro(20251231), Inteiro(1), Txt(CPF), Inteiro(5)),
      Linha(p, Inteiro(101), Inteiro(1), Txt(CPF), Inteiro(5)),
      Linha(p, Inteiro(0 - 1), Inteiro(1), Txt(CPF), Inteiro(5)),
      Linha(p, Inteiro(20260101), Txt(<<"2">>), Txt(<<" ", "c", "n", "p", "j">>), Inteiro(7)),
      Linha(p, Inteiro(20251231), Inteiro(1), Txt(<<"X", "Y", "Z">>), Inteiro(5)),
      Linha(p, Inteiro(20251231), Nulo, Txt(CPF), Inteiro(5)),
      Linha(p, Inteiro(20260101), Inteiro(2), Txt(CNPJ), Nulo),
      Linha(p, Inteiro(20260101), Inteiro(2), Txt(CNPJ), Txt(<<"a", "b", "c">>)) }

SeqAte(S, n) == UNION {[1..m -> S] : m \in 0..n}

ArquivoAusente == [existe |-> FALSE, colunas |-> <<>>, linhas |-> <<>>]

\* Processed files a loader task may find: absent, complete, without any
\* column (pd.DataFrame().to_parquet), or without the last expected column.
ArquivosProcessados(p) ==
    {ArquivoAusente}
    \cup {[existe |-> TRUE, colunas |-> ColunasEsperadas(p), linhas |-> ls] :
            ls \in SeqAte(LinhasArquivo(p), MaxLinhas)}
    \cup {[existe |-> TRUE, colunas |-> <<>>, linhas |-> <<>>]}
    \cup {[existe |-> TRUE,
           colunas |-> SubSeq(ColunasEsperadas(p), 1, Len(ColunasEsperadas(p)) - 1),
           linhas |-> <<>>]}

\* Rows a staging file may hold: two rows whose keys are in the dimensions,
\* one whose natural key is in no dimension, one with another document type.
LinhaStaging(p, data, chave, tipo, medida) ==
    [c \in Range(ColunasStaging(p)) |->
        CASE c = ColData(p) -> data
          [] c = ColNatural(p) -> chave
          [] c = "tipo_documento" -> tipo
          [] OTHER -> medida]

Natural(p, n) ==
    IF p # "dre" THEN Inteiro(n)
    ELSE CASE n = 10 -> Txt(<<"a">>)
           [] n = 20 -> Txt(<<"b", " ", " ", "c", " ">>)
           [] OTHER -> Txt(<<"z">>)

NaturalDim(p, n) ==
    IF p # "dre" THEN Inteiro(n)
    ELSE CASE n = 10 -> Txt(<<"A">>)
           [] n = 20 -> Txt(<<" ", "B", " ", "c">>)
           [] OTHER -> Txt(<<"Z">>)

LinhasStaging(p) ==
    { LinhaStaging(p, Data(20251231), Natural(p, 10), Txt(CPF), Inteiro(5)),
      LinhaStaging(p, Data(20260101), Natural(p, 20), Txt(CNPJ), Inteiro(7)),
      LinhaStaging(p, Data(20251231), Natural(p, 99), Txt(CPF), Inteiro(5)),
      LinhaStaging(p, Data(20260101), Natural(p, 20), Txt(<<"x">>), Inteiro(7)) }

ArquivosStaging(p) ==
    {ArquivoAusente}
    \cup {[existe |-> TRUE, colunas |-> ColunasStaging(p), linhas |-> ls] :
            ls \in SeqAte(LinhasStaging(p), MaxLinhas)}

SemDimensoes == [dim |-> <<>>, tempo |-> <<>>]

Par(id, chave) == [id |-> id, chave |-> chave]

\* Dimension tables of the warehouse: complete; dim_tempo without 2026-01-01;
\* the dimension with natural key 10 twice.
Dimensoes(p) ==
    LET d1 == Par(Inteiro(1), NaturalDim(p, 10))
        d2 == Par(Inteiro(2), NaturalDim(p, 20))
        d3 == Par(Inteiro(3), NaturalDim(p, 10))
        t1 == Par(Inteiro(20251231), Data(20251231))
        t2 == Par(Inteiro(20260101), Data(20260101))
    IN  { [dim |-> <<d1, d2>>, tempo |-> <<t1, t2>>],
          [dim |-> <<d1, d2>>, tempo |-> <<t1>>],
          [dim |-> <<d1, d3, d2>>, tempo |-> <<t1, t2>>] }

\* no city column and no dim_cidades: the run is not at limpar_dados
SemCidades == [linhas |-> <<>>, dim |-> <<>>]

\* def carregar_fato_clientes(lote: int = 5000), the value the flows use
LoteDefault == 5000

\* Batch sizes given to a loader task: negative, zero and positive.
Lotes == (0 - 1)..MaxLote

SemFalha == [passo |-> "", k |-> 0, e |-> ""]

\* The local state of a run: its position, its DataFrames, counters, open
\* transaction, the statements of its connection and what its caller observes.
Locais(pc_, lido_, df_, anos_, j_, i_, inseridos_, tx_part_, tx_rows_, particoes0_, hist_, excecao_, falha_, resultado_, erro_, retorno_, limpezas_, tentativa_, colunas_, sentencas_, passos_) ==
    [pc |-> pc_, lido |-> lido_, df |-> df_, anos |-> anos_, j |-> j_, i |-> i_,
     inseridos |-> inseridos_, tx_part |-> tx_part_, tx_rows |-> tx_rows_,
     particoes0 |-> particoes0_, hist |-> hist_, excecao |-> excecao_,
     falha |-> falha_, resultado |-> resultado_, erro |-> erro_,
     retorno |-> retorno_, limpezas |-> limpezas_, tentativa |-> tentativa_,
     colunas |-> colunas_, sentencas |-> sentencas_, passos |-> passos_]

\* a run that has not started, at position pc_
LocaisIniciais(pc_, particoes_) ==
    Locais(pc_, <<>>, <<>>, <<>>, 1, 0, 0, {}, <<>>, particoes_, <<>>, "", SemFalha,
           "executando", "", Nulo, 0, 1, <<>>, <<>>, <<>>)

\* no other run
SemOutra == LocaisIniciais("ausente", {})

Init ==
    /\ pipeline \in Pipelines
    /\ \/ /\ modo = "tarefa"
          /\ pc = "carregar"
          /\ staging = ArquivoAusente
          /\ dims = SemDimensoes
          /\ processed \in ArquivosProcessados(pipeline)
          /\ lote \in Lotes
       \/ /\ modo = "fluxo"
          /\ pc = "preparar"
          /\ staging \in ArquivosStaging(pipeline)
          /\ dims \in Dimensoes(pipeline)
          /\ processed = ArquivoAusente
          /\ lote = LoteDefault
    /\ lido = <<>>
    /\ df = <<>>
    /\ anos = <<>>
    /\ j = 1
    /\ i = 0
    /\ inseridos = 0
    /\ tx_part = {}
    /\ tx_rows = <<>>
    /\ particoes \in {{}, {Particao(2025)}}
    /\ particoes0 = particoes
    /\ fato = <<>>
    /\ hist = <<>>
    /\ excecao = ""
    /\ falha = SemFalha
    /\ resultado = "executando"
    /\ erro = ""
    /\ retorno = Nulo
    /\ limpezas = 0
    /\ tentativa = 1
    /\ entrada = processed
    /\ outro = SemOutra
    /\ tabela \in {ParticionadaPor("RANGE", "id_tempo"), SemParticionamento}
    /\ ~AceitaFaixa(tabela) => particoes = {}
    /\ cidades = SemCidades
    /\ limpos = <<>>
    /\ relatorio = SemRelatorio
    /\ colunas = <<>>
    /\ sentencas = <<>>
    /\ dados = SemDados
    /\ passos = <<>>
    /\ esquema = EsquemaPadrao
    /\ descoberta = SemDescoberta
    /\ pastas = PastasVazias
    /\ avisos = {}

\* ------------------------------------------------------------------ loader actions
Evento(ev, k) == [ev |-> ev, k |-> k]

\* A flow that goes on with its next task after a task has raised.
LevantaForaSeguindo(e, passo) ==
    /\ resultado' = "levantou"
    /\ erro' = e
    /\ falha' = [passo |-> passo, k |-> 0, e |-> e]
    /\ pc' = CASE passo = "limpar" -> "preparar"
               [] passo = "preparar" -> "carregar"
               [] OTHER -> "fim"

\* A statement outside the try block raises: the task ends at once.
LevantaFora(e, passo) ==
    /\ resultado' = "levantou"
    /\ erro' = e
    /\ falha' = [passo |-> passo, k |-> 0, e |-> e]
    /\ pc' = "fim"

\* A statement inside the try block raises: control goes to the except clause.
LevantaDentro(e, passo, k) ==
    /\ excecao' = e
    /\ falha' = [passo |-> passo, k |-> k, e |-> e]
    /\ pc' = "except"

\* The resolve step of the flow (preparar_fato_clientes, preparar_fato,
\* preparar_fato_receita_doc): read the staging file, join the dimensions,
\* write the processed file.  The warehouse may fail while the dimensions
\* are read.
Preparar ==
    /\ pc = "preparar"
    /\ LET e == ErroStaging(pipeline, staging)
           vazio == pipeline # "dre" /\ staging.linhas = <<>>
           d == Descobrir(pipeline, esquema)
           dup == /\ pipeline # "dre"
                  /\ \/ ChaveDuplicada(DimLida(pipeline, dims.dim))
                     \/ ChaveDuplicada(TempoLido(dims.tempo))
       IN
       \/ /\ e # ""
          /\ LevantaFora(e, "preparar")
          /\ UNCHANGED <<processed, relatorio, descoberta>>
       \/ /\ e = "" /\ vazio
          /\ processed' = [existe |-> TRUE, colunas |-> <<>>, linhas |-> <<>>]
          /\ pc' = "carregar"
          /\ UNCHANGED <<resultado, erro, falha, relatorio, descoberta>>
       \/ /\ e = "" /\ ~vazio
          /\ LevantaFora("OperationalError", "preparar")
          /\ UNCHANGED <<processed, relatorio, descoberta>>
       \/ /\ e = "" /\ ~vazio /\ d.erro # ""
          /\ descoberta' = d
          /\ LevantaFora(d.erro, "preparar")
          /\ UNCHANGED <<processed, relatorio>>
       \/ /\ e = "" /\ ~vazio /\ d.erro = "" /\ dup
          /\ descoberta' = d
          /\ LevantaFora("MergeError", "preparar")
          /\ UNCHANGED <<processed, relatorio>>
       \/ /\ e = "" /\ ~vazio /\ d.erro = "" /\ ~dup
          /\ descoberta' = d
          /\ processed' =
                [existe |-> TRUE, colunas |-> ColunasEsperadas(pipeline),
                 linhas |-> LinhasFato(pipeline,
                                Juntar(pipeline, TiparStaging(pipeline, staging.linhas), dims))]
          /\ relatorio' =
                Relatorio(pipeline, Juntar(pipeline, TiparStaging(pipeline, staging.linhas), dims))
          /\ pc' = "carregar"
          /\ UNCHANGED <<resultado, erro, falha>>
    /\ passos' = Append(passos, "preparar")
    /\ UNCHANGED <<dados, esquema, sentencas, colunas, avisos, pastas, limpos, cidades, tabela, tentativa, entrada, outro, pipeline, modo, staging, dims, lote, lido, df, anos, j, i, inseridos,
                   tx_part, tx_rows, particoes, particoes0, fato, hist, excecao,
                   retorno, limpezas>>

\* Read the processed file, check the columns, type and validate, return
\* early on an empty DataFrame, derive the years.
Validar ==
    /\ pc = "carregar"
    /\ LET e == ErroValidacao(pipeline, processed) IN
        IF e # ""
        THEN /\ LevantaFora(e, "validar")
             /\ lido' = processed.linhas
             /\ colunas' = IF processed.existe /\ Faltantes(pipeline, processed) = <<>>
                           THEN ColunasDf(pipeline, processed) ELSE colunas
             /\ UNCHANGED <<df, anos, retorno>>
        ELSE /\ lido' = processed.linhas
             /\ colunas' = ColunasDf(pipeline, processed)
             /\ df' = Tipar(pipeline, processed)
             /\ IF df' = <<>>
                THEN /\ resultado' = "retornou"
                     /\ retorno' = IF pipeline = "receita_doc" THEN Inteiro(0) ELSE Nulo
                     /\ pc' = "fim"
                     /\ UNCHANGED anos
                ELSE /\ anos' = Anos(df')
                     /\ pc' = "conectar"
                     /\ UNCHANGED <<resultado, retorno>>
             /\ UNCHANGED <<erro, falha>>
    /\ passos' = Append(passos, "validar")
    /\ UNCHANGED <<dados, descoberta, esquema, sentencas, avisos, pastas, relatorio, limpos, cidades, tabela, tentativa, entrada, outro, pipeline, modo, staging, dims, processed, lote, j, i, inseridos, tx_part, tx_rows,
                   particoes, particoes0, fato, hist, excecao, limpezas>>

\* conn = psycopg2.connect(**cfg_dw), before the try block.
Conectar ==
    /\ pc = "conectar"
    /\ \/ /\ pc' = IF pipeline = "dre" THEN "particoes" ELSE "verificar"
          /\ UNCHANGED <<resultado, erro, falha>>
       \/ LevantaFora("OperationalError", "conectar")
    /\ passos' = Append(passos, "conectar")
    /\ UNCHANGED <<dados, descoberta, esquema, sentencas, colunas, avisos, pastas, relatorio, limpos, cidades, tabela, tentativa, entrada, outro, pipeline, modo, staging, dims, processed, lote, lido, df, anos, j, i, inseridos,
                   tx_part, tx_rows, particoes, particoes0, fato, hist, excecao,
                   retorno, limpezas>>

\* First statement of the try block: _garantir_particionamento_id_tempo in the
\* customers loader, SELECT current_database() in the receita_doc loader.
\* The SELECT may fail; the customers loader then looks at the key definition.
Verificar ==
    /\ pc = "verificar"
    /\ \/ /\ ErroVerificacao(pipeline, tabela) = ""
          /\ pc' = "particoes"
          /\ UNCHANGED <<excecao, falha>>
       \/ /\ ErroVerificacao(pipeline, tabela) # ""
          /\ LevantaDentro(ErroVerificacao(pipeline, tabela), "verificar", 0)
       \/ LevantaDentro("DatabaseError", "verificar", 0)
    /\ passos' = Append(passos, "verificar")
    /\ UNCHANGED <<dados, descoberta, esquema, sentencas, colunas, avisos, pastas, relatorio, limpos, cidades, tabela, tentativa, entrada, outro, pipeline, modo, staging, dims, processed, lote, lido, df, anos, j, i, inseridos,
                   tx_part, tx_rows, particoes, particoes0, fato, hist, resultado,
                   erro, retorno, limpezas>>

\* The loop body on an autocommit connection: each CREATE TABLE is durable at once.
CriarParticaoAutocommit ==
    /\ pc = "particoes"
    /\ j <= Len(anos)
    /\ \/ /\ NomeValido(anos[j])
          /\ AceitaFaixa(tabela)
          /\ particoes' = particoes \cup CriarSeAusente(particoes, anos[j])
          /\ hist' = Append(hist, Evento("criar", anos[j]))
          /\ j' = j + 1
          /\ UNCHANGED <<pc, excecao, falha>>
       \/ /\ LevantaDentro("DatabaseError", "criar", anos[j])
          /\ UNCHANGED <<particoes, hist, j>>
    /\ passos' = Append(passos, "particoes")
    /\ UNCHANGED <<dados, descoberta, esquema, sentencas, colunas, avisos, pastas, relatorio, limpos, cidades, tabela, tentativa, entrada, outro, pipeline, modo, staging, dims, processed, lote, lido, df, anos, i,
                   inseridos, tx_part, tx_rows, particoes0, fato, resultado, erro,
                   retorno, limpezas>>

\* One iteration of "for ano in anos": CREATE TABLE IF NOT EXISTS ... PARTITION OF.
CriarParticao ==
    /\ pc = "particoes"
    /\ j <= Len(anos)
    /\ \/ /\ NomeValido(anos[j])
          /\ AceitaFaixa(tabela)
          /\ Livre(CriarSeAusente(particoes \cup tx_part, anos[j]), outro.tx_part)
          /\ tx_part' = tx_part \cup CriarSeAusente(particoes \cup tx_part, anos[j])
          /\ hist' = Append(hist, Evento("criar", anos[j]))
          /\ j' = j + 1
          /\ UNCHANGED <<pc, excecao, falha>>
       \/ /\ LevantaDentro("DatabaseError", "criar", anos[j])
          /\ UNCHANGED <<tx_part, hist, j>>
    /\ passos' = Append(passos, "particoes")
    /\ UNCHANGED <<dados, descoberta, esquema, sentencas, colunas, avisos, pastas, relatorio, limpos, cidades, tabela, tentativa, entrada, outro, pipeline, modo, staging, dims, processed, lote, lido, df, anos, i, inseridos,
                   tx_rows, particoes, particoes0, fato, resultado, erro, retorno,
                   limpezas>>

\* conn.commit() after the loop over anos.
CommitParticoes ==
    /\ pc = "particoes"
    /\ j > Len(anos)
    /\ \/ /\ particoes' = particoes \cup tx_part
          /\ tx_part' = {}
          /\ hist' = Append(hist, Evento("commit_part", 0))
          /\ i' = 0
          /\ inseridos' = 0
          /\ pc' = "lotes"
          /\ UNCHANGED <<excecao, falha>>
       \/ /\ LevantaDentro("DatabaseError", "commit_part", 0)
          /\ UNCHANGED <<particoes, tx_part, hist, i, inseridos>>
    /\ passos' = Append(passos, "particoes")
    /\ UNCHANGED <<dados, descoberta, esquema, sentencas, colunas, avisos, pastas, relatorio, limpos, cidades, tabela, tentativa, entrada, outro, pipeline, modo, staging, dims, processed, lote, lido, df, anos, j, tx_rows,
                   particoes0, fato, resultado, erro, retorno, limpezas>>

\* One iteration of "for i in range(0, total, lote)" up to execute_values.
\* range() itself raises ValueError when lote = 0.  The statement succeeds
\* only when every row of the batch has a partition; it may fail in any case.
InserirLote ==
    /\ pc = "lotes"
    /\ \/ /\ NoRange(i, Len(df), lote)
          /\ Roteavel(Chunk(df, i, lote), particoes, tabela.coluna)
          /\ tx_rows' = tx_rows \o Valores(colunas, df, i, lote)
          /\ sentencas' = Append(sentencas,
                                 Sentencas(Len(Chunk(df, i, lote)), PageSize(lote)))
          /\ hist' = Append(hist, Evento("insert", NumLote(i, lote)))
          /\ pc' = "commit"
          /\ UNCHANGED <<excecao, falha>>
       \/ /\ NoRange(i, Len(df), lote)
          /\ LevantaDentro("DatabaseError", "insert", NumLote(i, lote))
          /\ UNCHANGED <<tx_rows, hist, sentencas>>
       \/ /\ lote = 0
          /\ LevantaDentro("ValueError", "range", 0)
          /\ UNCHANGED <<tx_rows, hist, sentencas>>
    /\ passos' = Append(passos, "lotes")
    /\ UNCHANGED <<dados, descoberta, esquema, colunas, avisos, pastas, relatorio, limpos, cidades, tabela, tentativa, entrada, outro, pipeline, modo, staging, dims, processed, lote, lido, df, anos, j, i, inseridos,
                   tx_part, particoes, particoes0, fato, resultado, erro, retorno,
                   limpezas>>

\* conn.commit() of the batch, then inseridos += len(valores).
CommitLote ==
    /\ pc = "commit"
    /\ \/ /\ fato' = Gravar(fato, tx_rows)
          /\ inseridos' = inseridos + Len(tx_rows)
          /\ tx_rows' = <<>>
          /\ hist' = Append(hist, Evento("commit", NumLote(i, lote)))
          /\ i' = i + lote
          /\ pc' = "lotes"
          /\ UNCHANGED <<excecao, falha>>
       \/ /\ LevantaDentro("DatabaseError", "commit", NumLote(i, lote))
          /\ UNCHANGED <<fato, inseridos, tx_rows, hist, i>>
    /\ passos' = Append(passos, "lotes")
    /\ UNCHANGED <<dados, descoberta, esquema, sentencas, colunas, avisos, pastas, relatorio, limpos, cidades, tabela, tentativa, entrada, outro, pipeline, modo, staging, dims, processed, lote, lido, df, anos, j, tx_part,
                   particoes, particoes0, resultado, erro, retorno, limpezas>>

\* The range is exhausted: the summary is printed (receita_doc: return inseridos).
Concluir ==
    /\ pc = "lotes"
    /\ lote # 0
    /\ ~NoRange(i, Len(df), lote)
    /\ retorno' = IF pipeline = "receita_doc" THEN Inteiro(inseridos) ELSE Nulo
    /\ pc' = "finally"
    /\ UNCHANGED <<dados, passos, descoberta, esquema, sentencas, colunas, avisos, pastas, relatorio, limpos, cidades, tabela, tentativa, entrada, outro, pipeline, modo, staging, dims, processed, lote, lido, df, anos, j, i, inseridos,
                   tx_part, tx_rows, particoes, particoes0, fato, hist, excecao, falha,
                   resultado, erro, limpezas>>

\* An except clause that rolls back and goes on with the next batch.
ExceptContinua ==
    /\ pc = "except"
    /\ tx_rows' = <<>>
    /\ tx_part' = {}
    /\ hist' = Append(hist, Evento("rollback", 0))
    /\ IF falha.passo \in {"insert", "commit"}
       THEN /\ i' = i + lote
            /\ pc' = "lotes"
       ELSE /\ pc' = "finally"
            /\ UNCHANGED i
    /\ passos' = Append(passos, "except")
    /\ UNCHANGED <<dados, descoberta, esquema, sentencas, colunas, avisos, pastas, relatorio, limpos, cidades, tabela, tentativa, entrada, outro, pipeline, modo, staging, dims, processed, lote, lido, df, anos, j,
                   inseridos, particoes, particoes0, fato, excecao, falha, resultado,
                   erro, retorno, limpezas>>

\* except Exception as e: conn.rollback(); raise e
Except ==
    /\ pc = "except"
    /\ tx_rows' = <<>>
    /\ tx_part' = {}
    /\ hist' = Append(hist, Evento("rollback", 0))
    /\ pc' = "finally"
    /\ passos' = Append(passos, "except")
    /\ UNCHANGED <<dados, descoberta, esquema, sentencas, colunas, avisos, pastas, relatorio, limpos, cidades, tabela, tentativa, entrada, outro, pipeline, modo, staging, dims, processed, lote, lido, df, anos, j, i, inseridos,
                   particoes, particoes0, fato, excecao, falha, resultado, erro,
                   retorno, limpezas>>

\* A cleanup whose removals are in no try block: the first one that raises
\* ends the loop and its exception is what the caller observes.
FinallySemTry ==
    /\ pc = "finally"
    /\ limpezas' = limpezas + 1
    /\ hist' = Append(hist, Evento("limpeza", 0))
    /\ IF Avisos(pastas) = {}
       THEN /\ processed' = ArquivoAusente
            /\ pastas' = Limpar(pastas)
            /\ resultado' = IF excecao # "" THEN "levantou" ELSE "retornou"
            /\ erro' = excecao
       ELSE /\ resultado' = "levantou"
            /\ erro' = "OSError"
            /\ UNCHANGED <<processed, pastas>>
    /\ pc' = "fim"
    /\ passos' = Append(passos, "limpeza")
    /\ UNCHANGED <<dados, descoberta, esquema, sentencas, colunas, avisos, relatorio, limpos, cidades, tabela, tentativa, entrada, outro, pipeline, modo, staging, dims, lote, lido, df, anos, j, i, inseridos, tx_part,
                   tx_rows, particoes, particoes0, fato, excecao, falha, retorno>>

\* finally: conn.close() and the cleanup of data/processed, data/raw and
\* data/staging, each removal in its own try block; then the task returns or
\* the caught exception propagates.
Finally ==
    /\ pc = "finally"
    /\ limpezas' = limpezas + 1
    /\ processed' = ArquivoAusente
    /\ pastas' = Limpar(pastas)
    /\ avisos' = avisos \cup Avisos(pastas)
    /\ hist' = Append(hist, Evento("limpeza", 0))
    /\ resultado' = IF excecao # "" THEN "levantou" ELSE "retornou"
    /\ erro' = excecao
    /\ pc' = "fim"
    /\ passos' = Append(passos, "limpeza")
    /\ UNCHANGED <<dados, descoberta, esquema, sentencas, colunas, relatorio, limpos, cidades, tabela, tentativa, entrada, outro, pipeline, modo, staging, dims, lote, lido, df, anos, j, i, inseridos, tx_part,
                   tx_rows, particoes, particoes0, fato, excecao, falha, retorno>>

Next ==
    \/ Preparar
    \/ Validar
    \/ Conectar
    \/ Verificar
    \/ CriarParticao
    \/ CommitParticoes
    \/ InserirLote
    \/ CommitLote
    \/ Concluir
    \/ Except
    \/ Finally

Spec == Init /\ [][Next]_vars

\* ------------------------------------------------------------------ two runs
\* the local state of the run that is executing
Atual ==
    Locais(pc, lido, df, anos, j, i, inseridos, tx_part, tx_rows, particoes0, hist,
           excecao, falha, resultado, erro, retorno, limpezas, tentativa, colunas,
           sentencas, passos)

\* The scheduler leaves the executing run where it is and resumes the other
\* run of the same loader; the warehouse and the files are shared.
Trocar ==
    /\ outro.pc \notin {"ausente", "fim"}
    /\ outro' = Atual
    /\ pc' = outro.pc
    /\ lido' = outro.lido
    /\ df' = outro.df
    /\ anos' = outro.anos
    /\ j' = outro.j
    /\ i' = outro.i
    /\ inseridos' = outro.inseridos
    /\ tx_part' = outro.tx_part
    /\ tx_rows' = outro.tx_rows
    /\ particoes0' = outro.particoes0
    /\ hist' = outro.hist
    /\ excecao' = outro.excecao
    /\ falha' = outro.falha
    /\ resultado' = outro.resultado
    /\ erro' = outro.erro
    /\ retorno' = outro.retorno
    /\ limpezas' = outro.limpezas
    /\ tentativa' = outro.tentativa
    /\ colunas' = outro.colunas
    /\ sentencas' = outro.sentencas
    /\ passos' = outro.passos
    /\ UNCHANGED <<dados, descoberta, esquema, avisos, pastas, relatorio, limpos, cidades, tabela, pipeline, modo, staging, dims, processed, lote, particoes, fato, entrada>>

\* A retry before which the caller empties the fact table.
ReproduzirLimpando ==
    /\ modo = "tarefa"
    /\ pc = "carregar"
    /\ outro.pc = "fim"
    /\ ~processed.existe
    /\ entrada.existe
    /\ processed' = entrada
    /\ particoes0' = particoes
    /\ tentativa' = 2
    /\ fato' = <<>>
    /\ UNCHANGED <<dados, passos, descoberta, esquema, sentencas, colunas, avisos, pastas, relatorio, limpos, cidades, tabela, pipeline, modo, pc, staging, dims, lote, lido, df, anos, j, i, inseridos,
                   tx_part, tx_rows, particoes, hist, excecao, falha, resultado,
                   erro, retorno, limpezas, entrada, outro>>

\* A retry of the loader task after the other run is over: the upstream
\* steps have produced the same processed file again, and the run starts
\* from the partitions the warehouse has by now.
Reproduzir ==
    /\ modo = "tarefa"
    /\ pc = "carregar"
    /\ outro.pc = "fim"
    /\ ~processed.existe
    /\ entrada.existe
    /\ processed' = entrada
    /\ particoes0' = particoes
    /\ tentativa' = 2
    /\ UNCHANGED <<dados, passos, descoberta, esquema, sentencas, colunas, avisos, pastas, relatorio, limpos, cidades, tabela, pipeline, modo, pc, staging, dims, lote, lido, df, anos, j, i, inseridos,
                   tx_part, tx_rows, particoes, fato, hist, excecao, falha, resultado,
                   erro, retorno, limpezas, entrada, outro>>

\* rows that pass the validation of every loader and have a year of their own
LinhasCarregaveis(p) ==
    { Linha(p, Inteiro(20251231), Inteiro(1), Txt(CPF), Inteiro(5)),
      Linha(p, Inteiro(20260101), Txt(<<"2">>), Txt(<<" ", "c", "n", "p", "j">>), Inteiro(7)) }

\* Two runs of one loader on the same input: two invocations of the task on
\* a processed file, or two runs of the flow on a staging file.
InitDuas ==
    /\ pipeline \in Pipelines
    /\ \/ /\ modo = "tarefa"
          /\ pc = "carregar"
          /\ staging = ArquivoAusente
          /\ dims = SemDimensoes
          /\ processed \in {[existe |-> TRUE, colunas |-> ColunasEsperadas(pipeline),
                              linhas |-> ls] :
                                ls \in SeqAte(LinhasCarregaveis(pipeline), MaxLinhasDuas)}
          /\ lote \in 1..MaxLote
       \/ /\ modo = "fluxo"
          /\ pc = "preparar"
          /\ staging \in {a \in ArquivosStaging(pipeline) : Len(a.linhas) <= 1}
          /\ dims \in Dimensoes(pipeline)
          /\ processed = ArquivoAusente
          /\ lote = LoteDefault
    /\ lido = <<>>
    /\ df = <<>>
    /\ anos = <<>>
    /\ j = 1
    /\ i = 0
    /\ inseridos = 0
    /\ tx_part = {}
    /\ tx_rows = <<>>
    /\ particoes \in {{}, {Particao(2025)}}
    /\ particoes0 = particoes
    /\ fato = <<>>
    /\ hist = <<>>
    /\ excecao = ""
    /\ falha = SemFalha
    /\ resultado = "executando"
    /\ erro = ""
    /\ retorno = Nulo
    /\ limpezas = 0
    /\ tentativa = 1
    /\ entrada = processed
    /\ outro = LocaisIniciais(pc, particoes)
    /\ tabela = ParticionadaPor("RANGE", "id_tempo")
    /\ cidades = SemCidades
    /\ limpos = <<>>
    /\ relatorio = SemRelatorio
    /\ colunas = <<>>
    /\ sentencas = <<>>
    /\ dados = SemDados
    /\ passos = <<>>
    /\ esquema = EsquemaPadrao
    /\ descoberta = SemDescoberta
    /\ pastas = PastasVazias
    /\ avisos = {}

NextDuas ==
    \/ Preparar
    \/ Validar
    \/ Conectar
    \/ Verificar
    \/ CriarParticao
    \/ CommitParticoes
    \/ InserirLote
    \/ CommitLote
    \/ Concluir
    \/ Except
    \/ Finally
    \/ Trocar
    \/ Reproduzir

SpecDuas == InitDuas /\ [][NextDuas]_vars

\* ------------------------------------------------------------------ declared partitioning
\* the fact table's other integer key
OutraChave(p) == IF p = "dre" THEN "id_item" ELSE "id_regional"

\* Ways the fact table may have been declared: not partitioned, by range on
\* id_tempo, by range on a column whose name contains "id_tempo", by range
\* on another key, by list on id_tempo.
Tabelas(p) ==
    { SemParticionamento,
      ParticionadaPor("RANGE", "id_tempo"),
      ParticionadaPor("RANGE", "id_tempo_ref"),
      ParticionadaPor("RANGE", OutraChave(p)),
      ParticionadaPor("LIST", "id_tempo") }

\* One run of a loader on a loadable input, over every declaration of the
\* fact table.
InitTabela ==
    /\ pipeline \in Pipelines
    /\ \/ /\ modo = "tarefa"
          /\ pc = "carregar"
          /\ staging = ArquivoAusente
          /\ dims = SemDimensoes
          /\ processed \in {[existe |-> TRUE, colunas |-> ColunasEsperadas(pipeline),
                              linhas |-> ls] :
                                ls \in SeqAte(LinhasCarregaveis(pipeline), MaxLinhasTabela)}
          /\ lote \in 1..MaxLote
       \/ /\ modo = "fluxo"
          /\ pc = "preparar"
          /\ staging \in {a \in ArquivosStaging(pipeline) : Len(a.linhas) <= 1}
          /\ dims \in Dimensoes(pipeline)
          /\ processed = ArquivoAusente
          /\ lote = LoteDefault
    /\ lido = <<>>
    /\ df = <<>>
    /\ anos = <<>>
    /\ j = 1
    /\ i = 0
    /\ inseridos = 0
    /\ tx_part = {}
    /\ tx_rows = <<>>
    /\ tabela \in Tabelas(pipeline)
    /\ particoes \in {{}, {Particao(2025)}}
    /\ ~AceitaFaixa(tabela) => particoes = {}
    /\ cidades = SemCidades
    /\ limpos = <<>>
    /\ relatorio = SemRelatorio
    /\ colunas = <<>>
    /\ sentencas = <<>>
    /\ dados = SemDados
    /\ passos = <<>>
    /\ esquema = EsquemaPadrao
    /\ descoberta = SemDescoberta
    /\ pastas = PastasVazias
    /\ avisos = {}
    /\ particoes0 = particoes
    /\ fato = <<>>
    /\ hist = <<>>
    /\ excecao = ""
    /\ falha = SemFalha
    /\ resultado = "executando"
    /\ erro = ""
    /\ retorno = Nulo
    /\ limpezas = 0
    /\ tentativa = 1
    /\ entrada = processed
    /\ outro = SemOutra

SpecTabela == InitTabela /\ [][Next]_vars

\* ------------------------------------------------------------------ city cleaning step
\* Values of CIDADE APOS RATEIO: a name as dim_cidades writes it, one with
\* lower-case letters, one with two blanks between its words, one with an
\* accent, one that MAPEAMENTO_CIDADES rewrites, a missing value.
CidadesStaging ==
    { Txt(<<"B", "E", "T", "I", "M">>),
      Txt(<<"B", "e", "t", "i", "m", " ">>),
      Txt(<<"T", "R", "E", "S", " ", " ", "P", "O", "N", "T", "A", "S">>),
      Txt(<<"T", "R", "E'", "S", " ", "P", "O", "N", "T", "A", "S">>),
      Txt(<<"B", "E", "T", "I", "M", " ", "R", "E", "G", "I", "O", "N", "A", "L">>),
      Nulo }

\* dim_cidades: the names in their plain form; the same names as the
\* staging file writes them; no row.
DimCidades ==
    { <<Par(Inteiro(1), Txt(<<"B", "e", "t", "i", "m">>)), Par(Inteiro(2), Txt(<<"T", "R", "E", "S", " ", "P", "O", "N", "T", "A", "S">>))>>,
      <<Par(Inteiro(1), Txt(<<"B", "E", "T", "I", "M", " ", "R", "E", "G", "I", "O", "N", "A", "L">>)), Par(Inteiro(2), Txt(<<"T", "R", "E", "S", " ", " ", "P", "O", "N", "T", "A", "S">>))>>,
      <<>> }

\* limpar_dados of the DRE flow: normalise the city column, read dim_cidades,
\* join, write dados_limpos.parquet.  The connection may fail.
LimparDados ==
    /\ pc = "limpar"
    /\ \/ /\ limpos' = LinhasLimpas(cidades)
          /\ pc' = "preparar"
          /\ UNCHANGED <<resultado, erro, falha>>
       \/ /\ LevantaFora("OperationalError", "limpar")
          /\ UNCHANGED limpos
    /\ passos' = Append(passos, "limpar")
    /\ UNCHANGED <<dados, descoberta, esquema, sentencas, colunas, avisos, pastas, relatorio, cidades, tabela, tentativa, entrada, outro, pipeline, modo, staging, dims,
                   processed, lote, lido, df, anos, j, i, inseridos, tx_part, tx_rows,
                   particoes, particoes0, fato, hist, excecao, retorno, limpezas>>

InitCidades ==
    /\ pipeline = "dre"
    /\ modo = "fluxo"
    /\ pc = "limpar"
    /\ cidades \in [linhas : SeqAte(CidadesStaging, MaxCidades), dim : DimCidades]
    /\ limpos = <<>>
    /\ relatorio = SemRelatorio
    /\ colunas = <<>>
    /\ sentencas = <<>>
    /\ dados = SemDados
    /\ passos = <<>>
    /\ esquema = EsquemaPadrao
    /\ descoberta = SemDescoberta
    /\ pastas = PastasVazias
    /\ avisos = {}
    /\ staging = ArquivoAusente
    /\ dims = SemDimensoes
    /\ processed = ArquivoAusente
    /\ lote = LoteDefault
    /\ lido = <<>>
    /\ df = <<>>
    /\ anos = <<>>
    /\ j = 1
    /\ i = 0
    /\ inseridos = 0
    /\ tx_part = {}
    /\ tx_rows = <<>>
    /\ tabela = ParticionadaPor("RANGE", "id_tempo")
    /\ particoes = {}
    /\ particoes0 = particoes
    /\ fato = <<>>
    /\ hist = <<>>
    /\ excecao = ""
    /\ falha = SemFalha
    /\ resultado = "executando"
    /\ erro = ""
    /\ retorno = Nulo
    /\ limpezas = 0
    /\ tentativa = 1
    /\ entrada = processed
    /\ outro = SemOutra

NextCidades == LimparDados

SpecCidades == InitCidades /\ [][NextCidades]_vars

\* ------------------------------------------------------------------ report of unmapped keys
\* n staging rows whose regional keys are n keys that are in no dimension
Gerados(p, n) ==
    [k \in 1..n |-> LinhaStaging(p, Data(20251231), Inteiro(100 + k), Txt(CPF), Inteiro(5))]

\* Further rows: a key that is in the dimension, the first generated key
\* again, two keys that are no numbers, a missing key, a date that dim_tempo
\* may lack, a date that is no date.
LinhasRelatorio(p) ==
    { LinhaStaging(p, Data(20251231), Inteiro(10), Txt(CPF), Inteiro(5)),
      LinhaStaging(p, Data(20251231), Inteiro(101), Txt(CPF), Inteiro(5)),
      LinhaStaging(p, Data(20251231), Txt(<<"a", "b", "c">>), Txt(CPF), Inteiro(5)),
      LinhaStaging(p, Data(20251231), Txt(<<"x", "y", "z">>), Txt(CPF), Inteiro(5)),
      LinhaStaging(p, Data(20251231), Nulo, Txt(CPF), Inteiro(5)),
      LinhaStaging(p, Data(20260101), Inteiro(20), Txt(CNPJ), Inteiro(7)),
      LinhaStaging(p, Txt(<<"h", "o", "j", "e">>), Inteiro(10), Txt(CPF), Inteiro(5)) }

\* One run of the customers or receita_doc flow on a staging file with up
\* to MaxChaves unmapped keys.
InitRelatorio ==
    /\ pipeline \in {"clientes", "receita_doc"}
    /\ modo = "fluxo"
    /\ pc = "preparar"
    /\ staging \in {[existe |-> TRUE, colunas |-> ColunasStaging(pipeline),
                      linhas |-> Gerados(pipeline, n) \o ls] :
                        n \in 0..MaxChaves,
                        ls \in SeqAte(LinhasRelatorio(pipeline), MaxLinhasRelatorio)}
    /\ dims \in {d \in Dimensoes(pipeline) : ~ChaveDuplicada(d.dim)}
    /\ processed = ArquivoAusente
    /\ lote = LoteDefault
    /\ lido = <<>>
    /\ df = <<>>
    /\ anos = <<>>
    /\ j = 1
    /\ i = 0
    /\ inseridos = 0
    /\ tx_part = {}
    /\ tx_rows = <<>>
    /\ tabela = ParticionadaPor("RANGE", "id_tempo")
    /\ particoes = {Particao(2025)}
    /\ particoes0 = particoes
    /\ fato = <<>>
    /\ hist = <<>>
    /\ excecao = ""
    /\ falha = SemFalha
    /\ resultado = "executando"
    /\ erro = ""
    /\ retorno = Nulo
    /\ limpezas = 0
    /\ tentativa = 1
    /\ entrada = processed
    /\ outro = SemOutra
    /\ cidades = SemCidades
    /\ limpos = <<>>
    /\ relatorio = SemRelatorio
    /\ colunas = <<>>
    /\ sentencas = <<>>
    /\ dados = SemDados
    /\ passos = <<>>
    /\ esquema = EsquemaPadrao
    /\ descoberta = SemDescoberta
    /\ pastas = PastasVazias
    /\ avisos = {}

SpecRelatorio == InitRelatorio /\ [][Next]_vars

\* ------------------------------------------------------------------ scratch directories
\* Entries a scratch directory may hold: a file and a subdirectory that can be
\* removed, a file and a subdirectory whose removal raises (no permission;
\* a link to a directory, which rmtree refuses), an entry that is neither.
Itens ==
    { Item("a", "arquivo", FALSE),
      Item("b", "arquivo", TRUE),
      Item("c", "dir", FALSE),
      Item("d", "dir", TRUE),
      Item("e", "outro", FALSE) }

\* a directory that is absent, or holds up to MaxItens entries
Pastas ==
    {[existe |-> FALSE, itens |-> {}]}
    \cup {[existe |-> TRUE, itens |-> S] : S \in {T \in SUBSET Itens : Cardinality(T) <= MaxItens}}

\* One run of a loader task on a file of one loadable row, over the states
\* of the scratch directories; data/processed holds the file, so it exists.
InitLimpeza ==
    /\ pipeline \in Pipelines
    /\ modo = "tarefa"
    /\ pc = "carregar"
    /\ staging = ArquivoAusente
    /\ dims = SemDimensoes
    /\ processed = [existe |-> TRUE, colunas |-> ColunasEsperadas(pipeline),
                    linhas |-> <<Linha(pipeline, Inteiro(20251231), Inteiro(1), Txt(CPF), Inteiro(5))>>]
    /\ lote = 1
    /\ lido = <<>>
    /\ df = <<>>
    /\ anos = <<>>
    /\ j = 1
    /\ i = 0
    /\ inseridos = 0
    /\ tx_part = {}
    /\ tx_rows = <<>>
    /\ tabela = ParticionadaPor("RANGE", "id_tempo")
    /\ particoes = {Particao(2025)}
    /\ particoes0 = particoes
    /\ fato = <<>>
    /\ hist = <<>>
    /\ excecao = ""
    /\ falha = SemFalha
    /\ resultado = "executando"
    /\ erro = ""
    /\ retorno = Nulo
    /\ limpezas = 0
    /\ tentativa = 1
    /\ entrada = processed
    /\ outro = SemOutra
    /\ cidades = SemCidades
    /\ limpos = <<>>
    /\ relatorio = SemRelatorio
    /\ colunas = <<>>
    /\ sentencas = <<>>
    /\ dados = SemDados
    /\ passos = <<>>
    /\ esquema = EsquemaPadrao
    /\ descoberta = SemDescoberta
    /\ pastas \in {ps \in [Range(PastasParaLimpar) -> Pastas] : ps["processed"].existe}
    /\ avisos = {}

\* the loader task: every action but the resolve step of the flow
NextLimpeza ==
    \/ Validar
    \/ Conectar
    \/ Verificar
    \/ CriarParticao
    \/ CommitParticoes
    \/ InserirLote
    \/ CommitLote
    \/ Concluir
    \/ Except
    \/ Finally

SpecLimpeza == InitLimpeza /\ [][NextLimpeza]_vars

\* ------------------------------------------------------------------ column order of the input file
\* every order of the columns in cols
Permutacoes(cols) ==
    {f \in [1..Len(cols) -> Range(cols)] : Range(f) = Range(cols)}

\* One run of a loader on a loadable processed file whose columns come in
\* any order, or of the flow.
InitColunas ==
    /\ pipeline \in Pipelines
    /\ \/ /\ modo = "tarefa"
          /\ pc = "carregar"
          /\ staging = ArquivoAusente
          /\ dims = SemDimensoes
          /\ processed \in {[existe |-> TRUE, colunas |-> cs, linhas |-> ls] :
                                cs \in Permutacoes(ColunasEsperadas(pipeline)),
                                ls \in SeqAte(LinhasCarregaveis(pipeline), MaxLinhasColunas)}
          /\ lote \in 1..MaxLote
       \/ /\ modo = "fluxo"
          /\ pc = "preparar"
          /\ staging \in {a \in ArquivosStaging(pipeline) : Len(a.linhas) <= 1}
          /\ dims \in Dimensoes(pipeline)
          /\ processed = ArquivoAusente
          /\ lote = LoteDefault
    /\ lido = <<>>
    /\ df = <<>>
    /\ anos = <<>>
    /\ j = 1
    /\ i = 0
    /\ inseridos = 0
    /\ tx_part = {}
    /\ tx_rows = <<>>
    /\ tabela = ParticionadaPor("RANGE", "id_tempo")
    /\ particoes = {}
    /\ cidades = SemCidades
    /\ limpos = <<>>
    /\ relatorio = SemRelatorio
    /\ colunas = <<>>
    /\ sentencas = <<>>
    /\ dados = SemDados
    /\ passos = <<>>
    /\ esquema = EsquemaPadrao
    /\ descoberta = SemDescoberta
    /\ pastas = PastasVazias
    /\ avisos = {}
    /\ particoes0 = particoes
    /\ fato = <<>>
    /\ hist = <<>>
    /\ excecao = ""
    /\ falha = SemFalha
    /\ resultado = "executando"
    /\ erro = ""
    /\ retorno = Nulo
    /\ limpezas = 0
    /\ tentativa = 1
    /\ entrada = processed
    /\ outro = SemOutra

SpecColunas == InitColunas /\ [][Next]_vars

\* ------------------------------------------------------------------ batches beyond the page cap
\* n equal loadable rows
LinhasIguais(p, n) ==
    [m \in 1..n |-> Linha(p, Inteiro(20251231), Inteiro(1), Txt(CPF), Inteiro(5))]

\* One run of a loader on a file of one row, of as many rows as a page may
\* hold, or of more, with a batch size at or above the page cap; or one run
\* of the flow.
InitPaginas ==
    /\ pipeline \in Pipelines
    /\ \/ /\ modo = "tarefa"
          /\ pc = "carregar"
          /\ staging = ArquivoAusente
          /\ dims = SemDimensoes
          /\ \E n \in {1} \cup (PAGE_SIZE_MAX..(PAGE_SIZE_MAX + MaxAlemDaPagina)) :
                processed = [existe |-> TRUE, colunas |-> ColunasEsperadas(pipeline),
                             linhas |-> LinhasIguais(pipeline, n)]
          /\ lote \in PAGE_SIZE_MAX..(PAGE_SIZE_MAX + MaxAlemDaPagina)
       \/ /\ modo = "fluxo"
          /\ pc = "preparar"
          /\ staging \in {a \in ArquivosStaging(pipeline) : Len(a.linhas) <= 1}
          /\ dims \in Dimensoes(pipeline)
          /\ processed = ArquivoAusente
          /\ lote = LoteDefault
    /\ lido = <<>>
    /\ df = <<>>
    /\ anos = <<>>
    /\ j = 1
    /\ i = 0
    /\ inseridos = 0
    /\ tx_part = {}
    /\ tx_rows = <<>>
    /\ tabela = ParticionadaPor("RANGE", "id_tempo")
    /\ particoes = {}
    /\ cidades = SemCidades
    /\ limpos = <<>>
    /\ relatorio = SemRelatorio
    /\ colunas = <<>>
    /\ sentencas = <<>>
    /\ dados = SemDados
    /\ passos = <<>>
    /\ esquema = EsquemaPadrao
    /\ descoberta = SemDescoberta
    /\ pastas = PastasVazias
    /\ avisos = {}
    /\ particoes0 = particoes
    /\ fato = <<>>
    /\ hist = <<>>
    /\ excecao = ""
    /\ falha = SemFalha
    /\ resultado = "executando"
    /\ erro = ""
    /\ retorno = Nulo
    /\ limpezas = 0
    /\ tentativa = 1
    /\ entrada = processed
    /\ outro = SemOutra

SpecPaginas == InitPaginas /\ [][Next]_vars

\* ------------------------------------------------------------------ column names of the dimension tables
\* column names dim_regionais may have, in an order that is not the
\* candidates' order
NomesDim ==
    <<"nome", "id_regional_imananger", "id_regional_imanage", "id_regional_imanager",
      "id", "id_regional">>

\* column names dim_tempo may have
NomesTempo == <<"data_calendario", "dt", "data", "id", "id_tempo">>

\* the tables with any part of the names as their columns
Esquemas ==
    {Esquema(SelectSeq(NomesDim, LAMBDA c : c \in D),
             SelectSeq(NomesTempo, LAMBDA c : c \in T)) :
        D \in SUBSET Range(NomesDim), T \in SUBSET Range(NomesTempo)}

\* One run of a flow over dimension tables of any column names.
InitDescoberta ==
    /\ pipeline \in Pipelines
    /\ modo = "fluxo"
    /\ pc = "preparar"
    /\ staging \in {a \in ArquivosStaging(pipeline) : Len(a.linhas) <= MaxLinhasDescoberta}
    /\ dims \in Dimensoes(pipeline)
    /\ processed = ArquivoAusente
    /\ lote = LoteDefault
    /\ lido = <<>>
    /\ df = <<>>
    /\ anos = <<>>
    /\ j = 1
    /\ i = 0
    /\ inseridos = 0
    /\ tx_part = {}
    /\ tx_rows = <<>>
    /\ tabela = ParticionadaPor("RANGE", "id_tempo")
    /\ particoes = {}
    /\ cidades = SemCidades
    /\ limpos = <<>>
    /\ relatorio = SemRelatorio
    /\ colunas = <<>>
    /\ sentencas = <<>>
    /\ dados = SemDados
    /\ passos = <<>>
    /\ esquema \in Esquemas
    /\ pipeline = "dre" => esquema = EsquemaPadrao
    /\ descoberta = SemDescoberta
    /\ pastas = PastasVazias
    /\ avisos = {}
    /\ particoes0 = particoes
    /\ fato = <<>>
    /\ hist = <<>>
    /\ excecao = ""
    /\ falha = SemFalha
    /\ resultado = "executando"
    /\ erro = ""
    /\ retorno = Nulo
    /\ limpezas = 0
    /\ tentativa = 1
    /\ entrada = processed
    /\ outro = SemOutra

SpecDescoberta == InitDescoberta /\ [][Next]_vars

\* ------------------------------------------------------------------ the steps of a run
\* One run: of a loader task alone, of the customers or receita_doc flow
\* from its resolve step, of the DRE flow from limpar_dados.
InitFluxo ==
    /\ pipeline \in Pipelines
    /\ \/ /\ modo = "tarefa"
          /\ pc = "carregar"
          /\ staging = ArquivoAusente
          /\ dims = SemDimensoes
          /\ processed \in {a \in ArquivosProcessados(pipeline) :
                                Len(a.linhas) <= MaxLinhasFluxo}
          /\ lote \in 1..MaxLote
          /\ cidades = SemCidades
       \/ /\ modo = "fluxo"
          /\ pipeline # "dre"
          /\ pc = "preparar"
          /\ staging \in {a \in ArquivosStaging(pipeline) : Len(a.linhas) <= MaxLinhasFluxo}
          /\ dims \in Dimensoes(pipeline)
          /\ processed = ArquivoAusente
          /\ lote = LoteDefault
          /\ cidades = SemCidades
       \/ /\ modo = "fluxo"
          /\ pipeline = "dre"
          /\ pc = "limpar"
          /\ staging \in {a \in ArquivosStaging(pipeline) : Len(a.linhas) <= MaxLinhasFluxo}
          /\ dims \in Dimensoes(pipeline)
          /\ processed = ArquivoAusente
          /\ lote = LoteDefault
          /\ cidades \in [linhas : SeqAte(CidadesStaging, 1), dim : DimCidades]
    /\ lido = <<>>
    /\ df = <<>>
    /\ anos = <<>>
    /\ j = 1
    /\ i = 0
    /\ inseridos = 0
    /\ tx_part = {}
    /\ tx_rows = <<>>
    /\ tabela = ParticionadaPor("RANGE", "id_tempo")
    /\ particoes \in {{}, {Particao(2025)}}
    /\ limpos = <<>>
    /\ relatorio = SemRelatorio
    /\ colunas = <<>>
    /\ sentencas = <<>>
    /\ dados = SemDados
    /\ passos = <<>>
    /\ esquema = EsquemaPadrao
    /\ descoberta = SemDescoberta
    /\ pastas = PastasVazias
    /\ avisos = {}
    /\ particoes0 = particoes
    /\ fato = <<>>
    /\ hist = <<>>
    /\ excecao = ""
    /\ falha = SemFalha
    /\ resultado = "executando"
    /\ erro = ""
    /\ retorno = Nulo
    /\ limpezas = 0
    /\ tentativa = 1
    /\ entrada = processed
    /\ outro = SemOutra

NextFluxo ==
    \/ LimparDados
    \/ Next

SpecFluxo == InitFluxo /\ [][NextFluxo]_vars

\* ------------------------------------------------------------------ customers flow: runs over files
\* what a step of the run under way has read
Leu(passo, f) == [passo |-> passo, data |-> f.data, origem |-> f.origem]

\* the flow's run ends: a task raised, or the last task returned
FimDaCorrida(d) == [d EXCEPT !.passo = "fim"]

\* imanager_extrair_para_parquet(data_ref): the query may fail; else its
\* result, whatever it holds, is written to clientes_imanager_<data_ref>.parquet
Extrair ==
    /\ dados.passo = "extrair"
    /\ \/ dados' = FimDaCorrida(dados)
       \/ \E t \in TiposDeArquivo :
            dados' = [dados EXCEPT
                        !.raw = Escrever(@, Arquivo(dados.data_ref, dados.corrida, t)),
                        !.passo = "limpar"]
    /\ UNCHANGED Carga

\* limpar_clientes: reads the last raw file by name and writes
\* clientes_limpos_<date of that file>.parquet; a raw file without rows gives
\* a staging file without rows; a raw file without id_regional_imanager
\* raises KeyError.
LimparClientes ==
    /\ dados.passo = "limpar"
    /\ LET r == EncontrarUltimoRaw(dados.raw) IN
        \/ /\ r.erro # ""
           /\ dados' = FimDaCorrida(dados)
        \/ /\ r.erro = ""
           /\ r.valor.tipo # "vazio"
           /\ dados' = FimDaCorrida([dados EXCEPT !.leu = Append(@, Leu("limpar", r.valor))])
        \/ /\ r.erro = ""
           /\ dados' = [dados EXCEPT
                          !.staging = Escrever(@, r.valor),
                          !.leu = Append(@, Leu("limpar", r.valor)),
                          !.passo = "preparar"]
    /\ UNCHANGED Carga

\* preparar_fato_clientes: reads the last staging file by name and writes
\* fato_clientes_preparado.parquet; a staging file without rows gives a fact
\* file without rows before the warehouse is contacted; else the step may
\* raise (connection, discovery, join).
PrepararClientes ==
    /\ dados.passo = "preparar"
    /\ LET r == EncontrarUltimoStaging(dados.staging) IN
        \/ /\ r.erro # ""
           /\ dados' = FimDaCorrida(dados)
        \/ /\ r.erro = ""
           /\ r.valor.tipo # "vazio"
           /\ dados' = FimDaCorrida([dados EXCEPT !.leu = Append(@, Leu("preparar", r.valor))])
        \/ /\ r.erro = ""
           /\ dados' = [dados EXCEPT
                          !.processed = Escrever(@, Arquivo(0, r.valor.origem, r.valor.tipo)),
                          !.leu = Append(@, Leu("preparar", r.valor)),
                          !.passo = "carregar"]
    /\ UNCHANGED Carga

\* carregar_fato_clientes: reads the processed file; raises before the try
\* block on a file that fails the validation (without columns, with null
\* keys) or when the connection fails, and then leaves the directories as
\* they are; once in the try block, whatever its outcome, the finally block
\* empties data/processed, data/raw and data/staging.
CarregarClientes ==
    /\ dados.passo = "carregar"
    /\ LET r == EncontrarFatoProcessado(dados.processed) IN
        \/ /\ r.erro # ""
           /\ dados' = FimDaCorrida(dados)
        \/ /\ r.erro = ""
           /\ dados' = FimDaCorrida([dados EXCEPT !.leu = Append(@, Leu("carregar", r.valor))])
        \/ /\ r.erro = ""
           /\ r.valor.tipo = "linhas"
           /\ dados' = FimDaCorrida([dados EXCEPT
                                        !.raw = {}, !.staging = {}, !.processed = {},
                                        !.leu = Append(@, Leu("carregar", r.valor))])
    /\ UNCHANGED Carga

\* the flow is started again, for any reference date
NovaCorrida ==
    /\ dados.passo = "fim"
    /\ dados.corrida < MaxCorridas
    /\ \E d \in 1..MaxDatas :
          dados' = [dados EXCEPT !.corrida = @ + 1, !.data_ref = d, !.passo = "extrair",
                                 !.leu = <<>>]
    /\ UNCHANGED Carga

\* The customers flow run several times on directories that start empty.
InitArquivos ==
    /\ pipeline = "clientes"
    /\ modo = "fluxo"
    /\ pc = "fim"
    /\ staging = ArquivoAusente
    /\ dims = SemDimensoes
    /\ processed = ArquivoAusente
    /\ lote = LoteDefault
    /\ lido = <<>>
    /\ df = <<>>
    /\ anos = <<>>
    /\ j = 1
    /\ i = 0
    /\ inseridos = 0
    /\ tx_part = {}
    /\ tx_rows = <<>>
    /\ tabela = ParticionadaPor("RANGE", "id_tempo")
    /\ particoes = {}
    /\ cidades = SemCidades
    /\ limpos = <<>>
    /\ relatorio = SemRelatorio
    /\ colunas = <<>>
    /\ sentencas = <<>>
    /\ \E d \in 1..MaxDatas :
          dados = [SemDados EXCEPT !.corrida = 1, !.data_ref = d, !.passo = "extrair"]
    /\ passos = <<>>
    /\ esquema = EsquemaPadrao
    /\ descoberta = SemDescoberta
    /\ pastas = PastasVazias
    /\ avisos = {}
    /\ particoes0 = particoes
    /\ fato = <<>>
    /\ hist = <<>>
    /\ excecao = ""
    /\ falha = SemFalha
    /\ resultado = "executando"
    /\ erro = ""
    /\ retorno = Nulo
    /\ limpezas = 0
    /\ tentativa = 1
    /\ entrada = processed
    /\ outro = SemOutra

NextArquivos ==
    \/ Extrair
    \/ LimparClientes
    \/ PrepararClientes
    \/ CarregarClientes
    \/ NovaCorrida

SpecArquivos == InitArquivos /\ [][NextArquivos]_vars


\* ------------------------------------------------------------------ receita_doc: document types
\* values of T_doc / tipo_documento in the raw file: the two the fact table
\* knows, one to be trimmed and upper-cased, another one, a number, none
TiposDeDocumento ==
    {Txt(CPF), Txt(<<" ", "c", "n", "p", "j">>), Txt(<<"x">>), Inteiro(7), Nulo}

\* raw rows: every document type, with a date that parses or one that does not
LinhasTipos ==
    { LinhaStaging("receita_doc", d, Inteiro(10), t, Inteiro(5)) :
        d \in {Data(20251231), Txt(<<"x">>)}, t \in TiposDeDocumento }

\* One run of the receita_doc flow from its resolve step.
InitTipos ==
    /\ pipeline = "receita_doc"
    /\ modo = "fluxo"
    /\ pc = "preparar"
    /\ staging \in {[existe |-> TRUE, colunas |-> ColunasStaging(pipeline), linhas |-> ls] :
                        ls \in SeqAte(LinhasTipos, MaxLinhasTipos)}
    /\ dims \in Dimensoes(pipeline)
    /\ processed = ArquivoAusente
    /\ lote = LoteDefault
    /\ cidades = SemCidades
    /\ lido = <<>>
    /\ df = <<>>
    /\ anos = <<>>
    /\ j = 1
    /\ i = 0
    /\ inseridos = 0
    /\ tx_part = {}
    /\ tx_rows = <<>>
    /\ tabela = ParticionadaPor("RANGE", "id_tempo")
    /\ particoes \in {{}, {Particao(2025)}}
    /\ limpos = <<>>
    /\ relatorio = SemRelatorio
    /\ colunas = <<>>
    /\ sentencas = <<>>
    /\ dados = SemDados
    /\ passos = <<>>
    /\ esquema = EsquemaPadrao
    /\ descoberta = SemDescoberta
    /\ pastas = PastasVazias
    /\ avisos = {}
    /\ particoes0 = particoes
    /\ fato = <<>>
    /\ hist = <<>>
    /\ excecao = ""
    /\ falha = SemFalha
    /\ resultado = "executando"
    /\ erro = ""
    /\ retorno = Nulo
    /\ limpezas = 0
    /\ tentativa = 1
    /\ entrada = processed
    /\ outro = SemOutra

SpecTipos == InitTipos /\ [][Next]_vars

\* ------------------------------------------------------------------ claims
\* the INSERT and COMMIT statements of the batch loop, in the order issued
LoteEventos == SelectSeq(hist, LAMBDA x : x.ev \in {"insert", "commit"})

\* the tuples of the first n rows of df, in input order
Prefixados(n) == [m \in 1..n |-> Tupla(pipeline, df[m])]

FalhouNoLote == falha.passo \in {"insert", "commit"}

\* C1: batches are inserted and committed strictly in input order (insert 1,
\* commit 1, insert 2, commit 2, ...), and once the insert or the commit of
\* batch k has failed the fact table holds exactly the rows of batches
\* 1..k-1, in order, and no row of batch k or of a later batch.
TeoC1 ==
    /\ \A n \in 1..Len(LoteEventos) :
           LoteEventos[n] = IF n % 2 = 1 THEN Evento("insert", (n + 1) \div 2)
                                         ELSE Evento("commit", n \div 2)
    /\ FalhouNoLote => fato = Prefixados((falha.k - 1) * lote)

\* a later batch failed after earlier ones were committed, and the run is over
WitC1 ==
    /\ pc = "fim"
    /\ FalhouNoLote
    /\ falha.k >= 2
    /\ Len(fato) = (falha.k - 1) * lote
    /\ Len(df) > Len(fato)

\* C6: when the insert or commit of batch k fails, the rollback empties only
\* the open transaction (the committed rows of batches 1..k-1 and the
\* committed partitions stay), no INSERT of a later batch is ever issued, and
\* the caller gets the very exception that was raised.
TeoC6 ==
    (FalhouNoLote /\ pc \in {"finally", "fim"}) =>
        /\ tx_rows = <<>>
        /\ fato = Prefixados((falha.k - 1) * lote)
        /\ particoes = particoes0 \cup {Particao(anos[n]) : n \in 1..Len(anos)}
        /\ \A n \in 1..Len(hist) : hist[n].ev = "insert" => hist[n].k <= falha.k
        /\ Len(SelectSeq(hist, LAMBDA x : x.ev = "rollback")) = 1
        /\ pc = "fim" => (resultado = "levantou" /\ erro = falha.e)

\* batch 2 failed at its insert while a third batch was still to come
WitC6 ==
    /\ pc = "fim"
    /\ falha.passo = "insert"
    /\ falha.k = 2
    /\ Len(df) > 2 * lote
    /\ Len(fato) = lote
    /\ resultado = "levantou"

\* a row breaks a rule the loader of p states for its input: a key that is
\* missing or no number, a measure that is no number, and, where the loader
\* names an allowed set (the customers loader), a tipo_documento outside it
ViolaLinha(p, l) ==
    \/ \E c \in ChavesInt(p) : l[c] = Nulo \/ (l[c].t = "txt" /\ ~EhNumerico(l[c].s))
    \/ l[Medida(p)].t = "txt" /\ ~EhNumerico(l[Medida(p)].s)
    \/ p = "clientes" /\ StrUpper(StrStrip(AsTypeStr(l["tipo_documento"]).s)) \notin {CPF, CNPJ}

ViolaValidacao(p, arq) ==
    \/ \E k \in 1..Len(ColunasEsperadas(p)) : ColunasEsperadas(p)[k] \notin Range(arq.colunas)
    \/ \E k \in 1..Len(arq.linhas) : ViolaLinha(p, arq.linhas[k])

\* C2: pre-validation is all-or-nothing: when the processed file lacks a
\* required column or any one row breaks a validation rule, the loader raises
\* in its validation part, before any statement is sent to the warehouse, and
\* the fact table has no row, not even the valid rows of the same file.
TeoC2 ==
    (pc \notin {"preparar", "carregar"} /\ processed.existe
        /\ ViolaValidacao(pipeline, processed)) =>
        /\ pc = "fim"
        /\ resultado = "levantou"
        /\ falha.passo = "validar"
        /\ hist = <<>>
        /\ tx_rows = <<>>
        /\ fato = <<>>

\* a file with a valid row and an invalid row was rejected as a whole
WitC2 ==
    /\ pc = "fim"
    /\ falha.passo = "validar"
    /\ processed.existe
    /\ \E a, b \in 1..Len(processed.linhas) :
           /\ a < b
           /\ ~ViolaLinha(pipeline, processed.linhas[a])
           /\ ViolaLinha(pipeline, processed.linhas[b])
    /\ fato = <<>>

\* position of column c in the INSERT's column list
PosCol(p, c) == IndexOf(ColunasEsperadas(p), c)

\* C3: in every reachable state of every loader the fact table holds no
\* inserted row with a missing required key or with a tipo_documento outside
\* {"CPF", "CNPJ"}: for the customers loader and the receita_doc loader alike.
CexC3 ==
    \A n \in 1..Len(fato) :
        /\ \A c \in ChavesInt(pipeline) : fato[n][PosCol(pipeline, c)] # Nulo
        /\ TemTipo(pipeline) =>
               fato[n][PosCol(pipeline, "tipo_documento")].s \in {CPF, CNPJ}

\* C4: once the load step has completed or failed, whatever its outcome
\* (success, empty input, validation error, connection failure, partition
\* failure, batch failure), the scratch-directory cleanup has run exactly once.
\* The loader found its input file: a load step that never read a file is
\* left out.
CexC4 ==
    (pc = "fim" /\ falha.passo # "preparar" /\ falha.e # "FileNotFoundError") =>
        limpezas = 1

\* C5: when the insert of a batch fails after earlier batches were committed,
\* the caller observes the failure together with the number of rows already
\* committed.
CexC5 ==
    (pc = "fim" /\ falha.passo = "insert" /\ inseridos > 0) =>
        (resultado = "levantou" /\ retorno = Inteiro(inseridos))

\* every key of a row of the processed file is resolved
Resolvida(p, l) == \A c \in ChavesInt(p) : l[c] # Nulo

\* C7: the file the resolve step hands to the loader holds only rows whose
\* every dimension key resolved.
CexC7 ==
    (modo = "fluxo" /\ processed.existe) =>
        \A k \in 1..Len(processed.linhas) : Resolvida(pipeline, processed.linhas[k])

\* C8: a resolution gap is not fatal: when the warehouse itself does not
\* fail and the file has resolved rows beside unresolved ones (and no other
\* defect), the run ends normally with the resolved rows in the fact table.
CexC8 ==
    (/\ modo = "fluxo"
     /\ pc = "fim"
     /\ falha.passo \in {"", "validar"}
     /\ \E k \in 1..Len(lido) : Resolvida(pipeline, lido[k])
     /\ \E k \in 1..Len(lido) : ~Resolvida(pipeline, lido[k])
     /\ \A k \in 1..Len(lido) :
            pipeline = "clientes" =>
                StrUpper(StrStrip(AsTypeStr(lido[k]["tipo_documento"]).s)) \in {CPF, CNPJ})
    => /\ resultado = "retornou"
       /\ Len(fato) = Len(SelectSeq(lido, LAMBDA l : Resolvida(pipeline, l)))

\* positions in hist of the statements of one kind
Posicoes(ev) == {n \in 1..Len(hist) : hist[n].ev = ev}

FalhouNaParticao == falha.passo \in {"criar", "commit_part"}

\* C9: the partition creations of a run form one transaction: they are the
\* first statements on the connection, with no commit or rollback between
\* them, one commit follows the creation for the last year, and every INSERT
\* comes after that commit; when a creation or that commit fails, the
\* committed partitions are those from before the run and no row is inserted.
TeoC9 ==
    /\ \A n \in Posicoes("criar") : \A m \in 1..n : hist[m].ev = "criar"
    /\ Cardinality(Posicoes("commit_part")) <= 1
    /\ \A m \in Posicoes("commit_part") :
           /\ {hist[n].k : n \in 1..(m - 1)} = Range(anos)
           /\ tx_part = {}
    /\ \A n \in Posicoes("insert") : \E m \in Posicoes("commit_part") : m < n
    /\ Posicoes("commit_part") = {} => particoes = particoes0
    /\ FalhouNaParticao =>
           /\ particoes = particoes0
           /\ Posicoes("insert") = {}
           /\ fato = <<>>
           /\ pc \in {"finally", "fim"} => tx_part = {}

\* the creation for the second year failed after the first partition had been
\* created in the transaction, and the run is over
WitC9 ==
    /\ pc = "fim"
    /\ falha.passo = "criar"
    /\ Len(anos) = 2
    /\ falha.k = anos[2]
    /\ particoes0 = {}
    /\ hist[1] = Evento("criar", anos[1])

\* the leading four digits of a non-negative integer
RECURSIVE Lideres4(_)
Lideres4(x) == IF x < 10000 THEN x ELSE Lideres4(x \div 10)

\* the years of the load's time keys
AnosDaCarga == {Lideres4(df[n]["id_tempo"].n) : n \in 1..Len(df)}

Pertence(x, q) == q.inicio <= x /\ x < q.fim

\* C10: once the partition step has committed, the partitions added by the
\* run are those of the years of the load's time keys and of no other year,
\* each such year Y has its partition with the range
\* [Y*10000+0101, (Y+1)*10000+0101), and so key 20251231 lies in the
\* partition of 2025 only and key 20260101 in the partition of 2026 only.
TeoC10 ==
    Posicoes("commit_part") # {} =>
        /\ {q.ano : q \in particoes \ particoes0} \subseteq AnosDaCarga
        /\ \A y \in AnosDaCarga :
               \E q \in particoes :
                   q.ano = y /\ q.inicio = y * 10000 + 101 /\ q.fim = (y + 1) * 10000 + 101
        /\ \A q \in particoes :
               /\ Pertence(20251231, q) <=> q.ano = 2025
               /\ Pertence(20260101, q) <=> q.ano = 2026

\* a load with keys of 2025 and of 2026 created both partitions
WitC10 ==
    /\ Posicoes("commit_part") # {}
    /\ particoes0 = {}
    /\ AnosDaCarga = {2025, 2026}
    /\ {q.ano : q \in particoes} = {2025, 2026}

\* the years that have a partition among ps
AnosCom(ps) == {q.ano : q \in ps}

\* the partition step of a run is committed
ParticoesCommitadas(h) == \E n \in 1..Len(h) : h[n].ev = "commit_part"

\* C11: the partition step is idempotent.  A run never creates a partition
\* for a year that has one (committed, or held by the other run); repeating
\* the creation for a year this run has already handled creates nothing; and
\* a retry with the same years after a run whose partition step committed
\* creates nothing and leaves the partitions exactly as that run left them,
\* one per year.
TeoC11 ==
    /\ \A q \in tx_part : q.ano \notin AnosCom(particoes) \cup AnosCom(outro.tx_part)
    /\ pc = "particoes" =>
           \A n \in 1..(j - 1) : CriarSeAusente(particoes \cup tx_part, anos[n]) = {}
    /\ (tentativa = 2 /\ ParticoesCommitadas(outro.hist) /\ anos = outro.anos) =>
           /\ tx_part = {}
           /\ particoes = particoes0
           /\ \A y \in Range(anos) : Cardinality({q \in particoes : q.ano = y}) = 1

\* a retry went through its partition step without an error and returned,
\* with the two partitions the first run had created
WitC11 ==
    /\ tentativa = 2
    /\ pc = "fim"
    /\ resultado = "retornou"
    /\ ParticoesCommitadas(hist)
    /\ ParticoesCommitadas(outro.hist)
    /\ outro.particoes0 = {}
    /\ Len(anos) = 2
    /\ particoes = particoes0
    /\ Cardinality(particoes) = 2

\* how many times tuple t occurs in the sequence s
Ocorrencias(s, t) == Cardinality({n \in 1..Len(s) : s[n] = t})

\* the tuples of the first n rows of the frame d
TuplasDe(d, n) == [m \in 1..n |-> Tupla(pipeline, d[m])]

\* C19: retries are not idempotent: when a run failed at batch k > 1 and a
\* retry on the same input has returned normally, the fact table holds the
\* rows of batches 1..k-1 of the failed run followed by all the rows of the
\* retry, so every row of batches 1..k-1 is there at least twice.
TeoC19 ==
    (/\ tentativa = 2
     /\ pc = "fim"
     /\ resultado = "retornou"
     /\ outro.falha.passo \in {"insert", "commit"}
     /\ outro.falha.k > 1) =>
        LET antes == TuplasDe(outro.df, (outro.falha.k - 1) * lote)
            todas == TuplasDe(df, Len(df))
        IN  /\ df = outro.df
            /\ fato = antes \o todas
            /\ \A n \in 1..Len(antes) :
                   Ocorrencias(fato, antes[n]) =
                       Ocorrencias(antes, antes[n]) + Ocorrencias(todas, antes[n])
            /\ \A n \in 1..Len(antes) : Ocorrencias(fato, antes[n]) >= 2

\* the first run failed at the insert of batch 2 of two, the retry loaded
\* both batches: three rows for an input of two
WitC19 ==
    /\ tentativa = 2
    /\ pc = "fim"
    /\ resultado = "retornou"
    /\ outro.falha.passo = "insert"
    /\ outro.falha.k = 2
    /\ lote = 1
    /\ Len(df) = 2
    /\ df[1] # df[2]
    /\ Len(fato) = 3
    /\ Ocorrencias(fato, Tupla(pipeline, df[1])) = 2

\* C20: nothing keeps two runs of a loader on the same input from both
\* loading it: whenever both have returned normally the fact table holds
\* every input row twice (twice as often as the input holds it).
TeoC20 ==
    (/\ pc = "fim"
     /\ outro.pc = "fim"
     /\ resultado = "retornou"
     /\ outro.resultado = "retornou") =>
        /\ df = outro.df
        /\ Len(fato) = 2 * Len(df)
        /\ \A n \in 1..Len(df) :
               Ocorrencias(fato, Tupla(pipeline, df[n])) =
                   2 * Ocorrencias(TuplasDe(df, Len(df)), Tupla(pipeline, df[n]))

\* two runs that overlapped (both read the file before either cleaned up)
\* committed their batches alternately: row 1, row 1, row 2, row 2
WitC20 ==
    /\ pc = "fim"
    /\ outro.pc = "fim"
    /\ resultado = "retornou"
    /\ outro.resultado = "retornou"
    /\ tentativa = 1
    /\ outro.tentativa = 1
    /\ Len(df) = 2
    /\ df[1] # df[2]
    /\ fato = <<Tupla(pipeline, df[1]), Tupla(pipeline, df[1]),
                Tupla(pipeline, df[2]), Tupla(pipeline, df[2])>>

\* the fact table is declared PARTITION BY RANGE (id_tempo)
ParticionadaPorIdTempo == tabela = ParticionadaPor("RANGE", "id_tempo")

\* C12: when the fact table is unpartitioned or is not partitioned by range on
\* id_tempo, no loader creates a partition, in its open transaction or
\* committed, or inserts a row, and a run that had rows to load ends with an
\* exception.
CexC12 ==
    ~ParticionadaPorIdTempo =>
        /\ Posicoes("insert") = {}
        /\ tx_part = {}
        /\ particoes = particoes0
        /\ fato = <<>>
        /\ (pc = "fim" /\ df # <<>>) => resultado = "levantou"

\* the column of the typed staging rows that the dimension join compares
ColJuncao(p) == IF p = "dre" THEN "item_norm" ELSE ColNatural(p)

\* the rows of the dimension, as the resolve step read it, whose key equals
\* the key of typed staging row l
Correspondentes(p, l, dms) ==
    SelectSeq(DimLida(p, dms.dim), LAMBDA r : r.chave = l[ColJuncao(p)])

\* some staging row of the flow's input matches more than one dimension row
ChaveAmbigua ==
    /\ modo = "fluxo"
    /\ ErroStaging(pipeline, staging) = ""
    /\ \E k \in 1..Len(TiparStaging(pipeline, staging.linhas)) :
          Len(Correspondentes(pipeline, TiparStaging(pipeline, staging.linhas)[k], dims)) > 1

\* C13: when a staging natural key matches more than one row of the
\* dimension, the resolve step ends with an exception: it writes no processed
\* file and the loader never starts.
CexC13 ==
    (ChaveAmbigua /\ pc # "preparar") => falha.passo = "preparar"

\* the rows of dim_tempo, as the resolve step read it, whose date equals the
\* date of typed staging row l
DatasCorrespondentes(p, l, dms) ==
    SelectSeq(TempoLido(dms.tempo), LAMBDA r : r.chave = l[ColData(p)])

\* the rows the resolve step writes for typed staging row l
SaidaDe(p, l, dms) == LinhasFato(p, Juntar(p, <<l>>, dms))

\* the rows the resolve step writes for the typed staging rows, row by row
RECURSIVE SaidasDe(_, _, _)
SaidasDe(p, ls, dms) ==
    IF ls = <<>> THEN <<>> ELSE SaidaDe(p, Head(ls), dms) \o SaidasDe(p, Tail(ls), dms)

\* the measure of a typed staging row
MedidaStaging(p, l) == IF p = "dre" THEN l["VALORG"] ELSE l[Medida(p)]

\* the resolve step of the flow has written a processed file from rows
EscreveuProcessado ==
    /\ modo = "fluxo"
    /\ pc = "carregar"
    /\ processed.colunas # <<>>

\* C14: in the processed file of the flow, a staging row whose key matches
\* exactly one row of a dimension (the pipeline's dimension, dim_tempo) has
\* one output row, which carries that row's surrogate key and the staging
\* row's measure.
CexC14 ==
    EscreveuProcessado =>
        LET T == TiparStaging(pipeline, staging.linhas) IN
        /\ processed.linhas = SaidasDe(pipeline, T, dims)
        /\ \A k \in 1..Len(T) :
              LET saida == SaidaDe(pipeline, T[k], dims)
                  achados == Correspondentes(pipeline, T[k], dims)
                  datas == DatasCorrespondentes(pipeline, T[k], dims)
              IN  /\ Len(achados) = 1 =>
                        /\ Len(saida) = 1
                        /\ saida[1][ColSurrogate(pipeline)] = achados[1].id
                        /\ saida[1][Medida(pipeline)] = MedidaStaging(pipeline, T[k])
                  /\ Len(datas) = 1 =>
                        /\ Len(saida) = 1
                        /\ saida[1]["id_tempo"] = datas[1].id
                        /\ saida[1][Medida(pipeline)] = MedidaStaging(pipeline, T[k])

\* C15: in limpar_dados, a staging city and a dim_cidades name that are equal
\* after the staging-side normalisation match in the join: the step writes a
\* row with that city and the id_cidade of that dimension row.
CexC15 ==
    pc = "preparar" =>
        \A k \in 1..Len(cidades.linhas) : \A d \in 1..Len(cidades.dim) :
            NormalizarCidade(cidades.linhas[k]) = NormalizarCidade(cidades.dim[d].chave) =>
                \E n \in 1..Len(limpos) :
                    /\ limpos[n]["cidade"] = NormalizarCidade(cidades.linhas[k])
                    /\ limpos[n]["id_cidade"] = cidades.dim[d].id

\* the resolve step of the customers or receita_doc flow has joined rows and
\* written its reports
Relatou == EscreveuProcessado /\ pipeline # "dre"

\* staging row l has no row of the dimension for its key
SemRegional(p, l, dms) ==
    \A r \in Range(DimLida(p, dms.dim)) :
        IsNa(r.chave) \/ r.chave # ToNumericCoerce(l[ColNatural(p)])

\* staging row l has no row of dim_tempo for its date
SemTempo(p, l, dms) ==
    \A r \in Range(TempoLido(dms.tempo)) : IsNa(r.chave) \/ r.chave # l[ColData(p)]

\* the sum of the counts of a report
RECURSIVE Soma(_)
Soma(r) == IF r = <<>> THEN 0 ELSE Head(r).registros + Soma(Tail(r))

\* rel is the grouping of the rows ls by the value of their column col: one
\* entry for each value, with the number of rows that hold it, the entries by
\* count descending, at most TopN of them emitted
AgrupaPorValor(rel, ls, col) ==
    /\ \A k \in 1..Len(ls) :
          \E n \in 1..Len(rel.resumo) :
              /\ rel.resumo[n].chave = ls[k][col]
              /\ rel.resumo[n].registros = Len(SelectSeq(ls, LAMBDA l : l[col] = ls[k][col]))
    /\ Soma(rel.resumo) = Len(ls)
    /\ \A n \in 1..(Len(rel.resumo) - 1) :
          rel.resumo[n].registros >= rel.resumo[n + 1].registros
    /\ Len(rel.emitido) <= TopN
    /\ rel.emitido = SubSeq(rel.resumo, 1, Len(rel.emitido))
    /\ Len(rel.resumo) <= TopN => rel.emitido = rel.resumo

\* C16: the report of each dimension is the grouping of the staging rows
\* that have no row of the dimension by the value of their key as the staging
\* file holds it: each such row is counted once, the counts sum to their
\* number, the entries are by count descending and at most 50 are emitted.
CexC16 ==
    Relatou =>
        /\ AgrupaPorValor(relatorio.regional,
                          SelectSeq(staging.linhas, LAMBDA l : SemRegional(pipeline, l, dims)),
                          ColNatural(pipeline))
        /\ AgrupaPorValor(relatorio.tempo,
                          SelectSeq(staging.linhas, LAMBDA l : SemTempo(pipeline, l, dims)),
                          ColData(pipeline))

\* the cleanup of the run is over
Limpou == pc = "fim" /\ limpezas = 1

\* C17: when the cleanup is over, whatever removals raised, the caller
\* observes the outcome of the load (the return, or the exception the except
\* clause caught), every removal that raised has its warning, and every
\* file and subdirectory whose removal does not raise is gone from every
\* directory, those after a failed one included.
TeoC17 ==
    Limpou =>
        /\ resultado = (IF excecao # "" THEN "levantou" ELSE "retornou")
        /\ erro = excecao
        /\ erro = falha.e
        /\ avisos = Avisos(pastas)
        /\ \A d \in Range(PastasParaLimpar) : \A it \in pastas[d].itens :
              Tenta(it) => it.preso

\* a cleanup in which a removal raised in one directory, in a run that
\* returned, and an entry that could be removed stood in a later directory
WitC17 ==
    /\ Limpou
    /\ resultado = "retornou"
    /\ [pasta |-> "processed", nome |-> "b"] \in avisos
    /\ pastas["processed"].itens = {Item("b", "arquivo", TRUE)}
    /\ pastas["raw"].existe /\ pastas["raw"].itens = {}
    /\ [pasta |-> "staging", nome |-> "d"] \in avisos

\* C18: a cleanup in which no removal raises leaves every scratch directory
\* as present or absent as it was, removes nothing but entries of the three
\* directories, and leaves no file and no subdirectory in a directory that
\* existed; the processed file is gone with them.
TeoC18 ==
    [][(pc = "finally" /\ Avisos(pastas) = {}) =>
          /\ \A d \in Range(PastasParaLimpar) :
                /\ pastas'[d].existe = pastas[d].existe
                /\ pastas'[d].itens \subseteq pastas[d].itens
                /\ \A it \in pastas'[d].itens : it.tipo \notin {"arquivo", "dir"}
          /\ DOMAIN pastas' = Range(PastasParaLimpar)
          /\ ~processed'.existe
          /\ avisos' = avisos]_vars

\* a cleanup without failures is over, of directories of which one did not
\* exist and one keeps its entry that is neither file nor directory
WitC18 ==
    /\ Limpou
    /\ avisos = {}
    /\ hist # <<>>
    /\ ~pastas["raw"].existe
    /\ pastas["staging"].existe
    /\ pastas["staging"].itens = {Item("e", "outro", FALSE)}
    /\ pastas["processed"].itens = {}


\* C21: every tuple handed to the INSERT statement (the ones of the open
\* transaction and the ones committed) lists the values of its row in the
\* order of the INSERT's column list, whatever the column order of the file.
TeoC21 ==
    LET enviadas == fato \o tx_rows
        cs == ColunasInsert(pipeline)
    IN  \A n \in 1..Len(enviadas) :
            /\ n <= Len(df)
            /\ Len(enviadas[n]) = Len(cs)
            /\ \A k \in 1..Len(cs) : enviadas[n][k] = df[n][cs[k]]

\* a file whose columns come in another order than the INSERT's list was
\* loaded: two different rows sent and committed
WitC21 ==
    /\ modo = "tarefa"
    /\ entrada.existe
    /\ entrada.colunas # ColunasInsert(pipeline)
    /\ entrada.colunas[1] # "id_tempo"
    /\ pc = "fim"
    /\ resultado = "retornou"
    /\ Len(fato) = 2
    /\ fato[1] # fato[2]


\* ceil(n / b) for b >= 1
Teto(n, b) == (n + b - 1) \div b

\* the tuples of the rows of df at the offsets [de, ate), in input order
Fatia(de, ate) == [m \in 1..(ate - de) |-> Tupla(pipeline, df[de + m])]

\* the INSERT statements of the batch loop, in the order issued
Inserts == SelectSeq(hist, LAMBDA x : x.ev = "insert")

\* C22: for N validated rows and a batch size B >= 1, batch j is the slice
\* [(j-1)*B, min(j*B, N)) of the input, in input order, with 1..B rows; the
\* batches are numbered 1, 2, ... and a run that returns has issued exactly
\* ceil(N/B) of them, whose concatenation is the input.
TeoC22 ==
    lote >= 1 =>
        /\ \A n \in 1..Len(Inserts) : Inserts[n].k = n
        /\ Len(Inserts) <= Teto(Len(df), lote)
        /\ pc = "commit" =>
              LET b == Len(Inserts)
              IN  /\ i = (b - 1) * lote
                  /\ tx_rows = Fatia((b - 1) * lote, Min({b * lote, Len(df)}))
                  /\ Len(tx_rows) \in 1..lote
                  /\ fato = Fatia(0, (b - 1) * lote)
        /\ (pc = "fim" /\ resultado = "retornou") =>
              /\ Len(Inserts) = Teto(Len(df), lote)
              /\ fato = Fatia(0, Len(df))

\* three rows went in two batches of two and one, and the run returned
WitC22 ==
    /\ pc = "fim"
    /\ resultado = "retornou"
    /\ lote = 2
    /\ Len(df) = 3
    /\ Len(Inserts) = 2
    /\ Len(fato) = 3


\* C23: every batch is sent to the warehouse as exactly one multi-row INSERT
\* statement, for every batch size B >= 1, also above the page cap of 10000.
CexC23 ==
    \A n \in 1..Len(sentencas) : sentencas[n] = 1


\* v is the first name of candidatas that is a column of the table
PrimeiraExistente(cols, candidatas, v) ==
    \E k \in 1..Len(candidatas) :
        /\ candidatas[k] = v
        /\ v \in Range(cols)
        /\ \A m \in 1..(k - 1) : candidatas[m] \notin Range(cols)

\* no name of candidatas is a column of the table
NenhumaExiste(cols, candidatas) ==
    \A k \in 1..Len(candidatas) : candidatas[k] \notin Range(cols)

\* the discoveries of the resolve step: table columns, candidates, result
Descobertas ==
    << [cols |-> esquema.dim, candidatas |-> CandidatasPkReg, achada |-> descoberta.pk_reg],
       [cols |-> esquema.dim, candidatas |-> CandidatasFkReg(pipeline),
        achada |-> descoberta.fk_reg_im],
       [cols |-> esquema.tempo, candidatas |-> CandidatasPkTmp, achada |-> descoberta.pk_tmp],
       [cols |-> esquema.tempo, candidatas |-> CandidatasData,
        achada |-> descoberta.col_data_tmp] >>

\* the resolve step has read a staging file with rows and all required
\* columns and has connected to the warehouse
ChegouADescoberta ==
    /\ modo = "fluxo"
    /\ pipeline # "dre"
    /\ pc # "preparar"
    /\ ErroStaging(pipeline, staging) = ""
    /\ staging.linhas # <<>>
    /\ ~(falha.passo = "preparar" /\ falha.e = "OperationalError")

\* C24: column discovery returns the first candidate, in the candidates'
\* order, that is a column of the table; when a candidate list has no name
\* among the table's columns the resolve step ends with a ValueError, no
\* dimension table is read and no fact file is written (and nothing is
\* sent by a loader); otherwise all names are found and the tables read.
TeoC24 ==
    /\ \A n \in 1..Len(Descobertas) :
          Descobertas[n].achada # "" =>
              PrimeiraExistente(Descobertas[n].cols, Descobertas[n].candidatas,
                                Descobertas[n].achada)
    /\ ChegouADescoberta =>
          IF \E n \in 1..Len(Descobertas) :
                 NenhumaExiste(Descobertas[n].cols, Descobertas[n].candidatas)
          THEN /\ pc = "fim"
               /\ resultado = "levantou"
               /\ erro = "ValueError"
               /\ falha.passo = "preparar"
               /\ descoberta.lidas = {}
               /\ processed = ArquivoAusente
               /\ hist = <<>>
          ELSE /\ \A n \in 1..Len(Descobertas) : Descobertas[n].achada # ""
               /\ descoberta.lidas = {"dim", "tempo"}

\* dim_regionais has both "id" and "id_regional" and a misspelt natural key,
\* dim_tempo has no date column: the first two names were found, the earlier
\* candidate before the later one, and the step ended with the ValueError
WitC24 ==
    /\ ChegouADescoberta
    /\ pipeline = "clientes"
    /\ {"id", "id_regional"} \subseteq Range(esquema.dim)
    /\ descoberta.pk_reg = "id_regional"
    /\ descoberta.fk_reg_im = "id_regional_imanage"
    /\ descoberta.pk_tmp = "id"
    /\ descoberta.col_data_tmp = ""
    /\ erro = "ValueError"
    /\ pc = "fim"
    /\ ~processed.existe


\* the steps of a run in the order the flows and the loaders state them
OrdemDosPassos ==
    <<"limpar", "preparar", "validar", "conectar", "verificar", "particoes", "lotes",
      "except", "limpeza">>

Ordem(passo) == IndexOf(OrdemDosPassos, passo)

\* the step in which the failure recorded in falha was raised
PassoDaFalha ==
    CASE falha.passo \in {"criar", "commit_part"} -> "particoes"
      [] falha.passo \in {"insert", "commit", "range"} -> "lotes"
      [] OTHER -> falha.passo

\* how many events ev the run has issued before position n of hist
Antes(ev, n) == Cardinality({m \in 1..(n - 1) : hist[m].ev = ev})

\* C25: the steps of a run start in the order clean, resolve, (validate,
\* connect, verify,) ensure partitions, insert batches, cleanup, each after
\* the one before it is over; once a step has raised no later step starts
\* but the rollback and the cleanup of the loader's finally block; the
\* partitions are committed before the first INSERT; every batch is
\* committed before the INSERT of the next one, so the open transaction
\* never holds rows of two batches; the cleanup is the last thing a run does.
TeoC25 ==
    /\ \A a, b \in 1..Len(passos) : a < b => Ordem(passos[a]) <= Ordem(passos[b])
    /\ \A a, b \in 1..Len(passos) :
          (a < b /\ passos[a] = passos[b]) => passos[a] \in {"particoes", "lotes"}
    /\ falha.passo # "" =>
          \A n \in 1..Len(passos) :
              passos[n] \notin {"except", "limpeza"} =>
                  Ordem(passos[n]) <= Ordem(PassoDaFalha)
    /\ (pc \notin {"limpar", "preparar"} /\ modo = "fluxo" /\ falha.passo # "limpar") =>
          /\ \E n \in 1..Len(passos) : passos[n] = "preparar"
          /\ pipeline = "dre" => passos[1] = "limpar"
    /\ \A n \in 1..Len(hist) :
          hist[n].ev = "insert" =>
              /\ Antes("commit_part", n) = 1
              /\ Antes("commit", n) = Antes("insert", n)
    /\ Len(tx_rows) <= (IF lote >= 1 THEN lote ELSE 0)
    /\ \A n \in 1..Len(hist) : hist[n].ev = "limpeza" => n = Len(hist)

\* the DRE flow went through all its steps and loaded two rows
WitC25 ==
    /\ pipeline = "dre"
    /\ modo = "fluxo"
    /\ pc = "fim"
    /\ resultado = "retornou"
    /\ passos[1] = "limpar"
    /\ passos[2] = "preparar"
    /\ passos[Len(passos)] = "limpeza"
    /\ Len(fato) = 2


\* C26: whenever a loader has returned without raising for N >= 1 validated
\* rows, the fact table holds all N rows, each once and in input order, and
\* the loader has counted N rows, whatever the value of lote.
CexC26 ==
    (pc = "fim" /\ resultado = "retornou" /\ Len(df) >= 1) =>
        /\ fato = Fatia(0, Len(df))
        /\ inseridos = Len(df)


\* C27: once the partition step of a run has committed, every id_tempo of
\* the load lies in the range of the partition of the year derived from it,
\* [int(f"{ano}0101"), int(f"{ano + 1}0101")) with ano = int(str(id_tempo)[:4]),
\* and that partition exists.
CexC27 ==
    (ParticoesCommitadas(hist) /\ tabela.estrategia = "RANGE") =>
        \A n \in 1..Len(df) :
            LET x == df[n]["id_tempo"].n
            IN  /\ Particao(AnoDe(x)) \in particoes
                /\ Pertence(x, Particao(AnoDe(x)))


\* C28: in every run of the customers flow each step reads the file that
\* the run itself has produced for its own reference date, never a file
\* that an earlier run left in data/raw, data/staging or data/processed.
CexC28 ==
    \A n \in 1..Len(dados.leu) :
        /\ dados.leu[n].origem = dados.corrida
        /\ dados.leu[n].passo # "carregar" => dados.leu[n].data = dados.data_ref


\* C29: a run of the customers or receita_doc flow whose input file has no
\* row ends without an error: the resolve step writes a fact file without
\* rows and the loader returns on it before it connects to the warehouse,
\* with no partition created and no row inserted.
CexC29 ==
    (/\ modo = "fluxo"
     /\ pipeline \in {"clientes", "receita_doc"}
     /\ staging.existe
     /\ staging.linhas = <<>>
     /\ pc = "fim") =>
        /\ resultado = "retornou"
        /\ erro = ""
        /\ passos = <<"preparar", "validar">>
        /\ hist = <<>>
        /\ particoes = particoes0
        /\ fato = <<>>



\* str.upper().str.strip() of a raw document type, as text
TipoLido(c) == StrStrip(StrUpper(AsTypeStr(c).s))

\* the raw rows the resolve step keeps: those whose date parses
Mantidas == TiparStaging(pipeline, staging.linhas)

\* the prepared fact file has been written from a raw file with rows
Preparado == processed.existe /\ processed.colunas # <<>>

====
